---- MODULE Spec2Model ----
(***************************************************************************)
(* A model of yadb, a directory brute-forcer.                              *)
(*                                                                         *)
(*   - the engine (src/lib/buster.rs): Buster::run, the recursion driver,  *)
(*     and Buster::execute, the worker pool, with every GET and every send *)
(*     on the message channel as one step;                                 *)
(*   - the staged builder (src/lib/worker/builder.rs): its setters and     *)
(*     build();                                                            *)
(*   - the slice assignment of execute as a pure function.                 *)
(*                                                                         *)
(* A Url is modelled by its serialization (what Url::to_string() gives), a *)
(* string, and a wordlist entry by its line.  Candidates are formed and    *)
(* parsed character by character, as format! and Url::parse do.            *)
(***************************************************************************)
EXTENDS Integers, Sequences, FiniteSets, TLC

\* ------------------------------------------------------------------ bounds
\* the deepest recursion limit configured
MaxDepth == 1
\* how many GETs of one run the server answers with anything but a 404 (or
\* fails): as many as a run of one thread over two words and one level makes
MaxOthers == 6
\* the same for the run that goes two levels deep: every GET it can make
DeepOthers == 14
\* the setter calls made on one builder
MaxCalls == 4
\* the wordlist lengths and pool sizes the slice assignment is computed for
MaxSliceLen == 8
MaxSliceThreads == 4
\* the recursion limit of the run whose frontier is followed in depth
DeepDepth == 2
\* the Log messages and the Print messages one consumer is sent
MaxLogs == 6
MaxPrints == 21

\* ------------------------------------------------------- program constants
DEFAULT_THREADS_NUMBER == 50
DEFAULT_RECURSIVE_MODE == 0
DEFAULT_TIMEOUT == 5
NOT_FOUND == 404
LOG_MAX == 5
MESSAGES_MAX == 20
\* usize is 64 bits wide and TLC's integers are 32.  A usize below 2^31 is
\* held as itself and one of 2^64 - 2^31 or more as its value less 2^64 (the
\* signed reading of its 64 bits); the values between are not in the model.
\* usize::MAX = 2^64 - 1 is then held as -1.
USIZE_MAX == -1

\* ----------------------------------------------------------------- results
\* Result<T, E>
Ok(x) == [ok |-> TRUE, val |-> x]
Err(e) == [ok |-> FALSE, val |-> e]

\* ------------------------------------------------------------ input values
\* wordlist files: empty, shorter than a pool, plain words, and a word the
\* URL parser resolves ("..")
Wordlists == {<<>>, <<"a">>, <<"a", "b">>, <<"..">>}
\* What BufReader::lines() yields for a file: Ok(line) for a line of valid
\* UTF-8, Err(InvalidData) for one that is not.
InvalidData == Err("InvalidData")
\* the file whose lines are the words ws
FileOf(ws) == [i \in DOMAIN ws |-> Ok(ws[i])]
Files == {FileOf(ws) : ws \in Wordlists}
\* files with a line that is not UTF-8 first, in the middle and last, and a
\* file with a blank line
BrokenFiles ==
  {<<InvalidData, Ok("a")>>, <<Ok("a"), InvalidData, Ok("b")>>,
   <<Ok("a"), InvalidData>>, <<Ok(""), Ok("a")>>}
\* pool sizes: none, one thread, and two: a thread per word of the longest
\* wordlist, more threads than words for the others
PoolSizes == {0, 1, 2}
Statuses == {200, 403, NOT_FOUND}
BaseUrls == {"http://h/", "http://h/a/", "http://h/a"}
None == "None"

\* ------------------------------------------------------------------- state
VARIABLES
  \* Buster's fields (buster.rs:23-30) and the wordlist file it names
  threads, recursion_depth, uri, file,
  \* the server the run is pointed at: what a GET can come back with, and
  \* how many GETs of the run come back with anything but a 404
  server,
  \* run()'s locals (buster.rs:52-59)
  pc, urls_vec, lines, progress_len, path_len_start,
  \* execute()'s locals: the URL of the pass, the spawned workers, the
  \* joined result and the index of the next thread to join
  url, workers, result, joined,
  \* the Agent execute() has built (buster.rs:100-105): agents are numbered
  \* as they are built, 0 is none
  client,
  \* the channel: every message sent, in send order, and whether the
  \* consumer still holds its receiving end
  chan, rx,
  \* history: who sent chan[k], every GET issued, the URLs passed to execute
  origin, gets, scanned,
  \* the builder (worker/builder.rs:41-50), what build() returned, and
  \* history: the setter calls made on the builder
  builder, built, calls,
  \* the slice computation on its own: inputs and the slices computed so far
  sl_len, sl_threads, sl_done,
  \* the TUI consumer of one worker (tui/app.rs:95-157): the messages waiting
  \* in its receiver, its WorkerState, and history: the messages it received
  tui_rx, tui, tui_seen

cfgVars == <<threads, recursion_depth, uri, file, server>>
engineVars == <<cfgVars, pc, urls_vec, lines, progress_len, path_len_start, url,
                workers, result, joined, client, chan, rx, origin, gets, scanned>>
builderVars == <<builder, built, calls>>
sliceVars == <<sl_len, sl_threads, sl_done>>
tuiVars == <<tui_rx, tui, tui_seen>>
\* what a step of the engine leaves alone
otherVars == <<builderVars, sliceVars, tuiVars, rx, client>>
vars == <<engineVars, builderVars, sliceVars, tuiVars>>

\* --------------------------------------------------------------- messages
Msg(kind, stream, change, size, level, text) ==
  [kind |-> kind, stream |-> stream, change |-> change, size |-> size,
   level |-> level, text |-> text]

Progress(stream, change, size, text) == Msg("Progress", stream, change, size, None, text)

set_total_size(size) == Progress("Total", "SetSize", size, <<>>)
set_current_size(size) == Progress("Current", "SetSize", size, <<>>)
finish_total == Progress("Total", "Finish", 0, <<>>)
finish_current == Progress("Current", "Finish", 0, <<>>)
advance_current == Progress("Current", "Advance", 0, <<>>)
advance_total == Progress("Total", "Advance", 0, <<>>)
log(level, text) == Msg("Log", None, None, 0, level, text)

\* format!("GET {url} -> {status}"), format!("{url} -> {status}") and
\* format!("Error while sending request to {url}: {e}") as their parts
\* console::style(x).cyan() / .red(): the value with the colour it is shown in
Styled(colour, x) == <<colour, x>>
GetText(c, status) == <<"GET ", c, " -> ", status>>
FoundText(c, status) == <<c, " -> ", status>>
ErrorText(c) == <<"Error while sending request to ", Styled("red", c), ": ", "e">>

\* -------------------------------------------------------------------- URLs
Front(s) == SubSeq(s, 1, Len(s) - 1)
Last(s) == s[Len(s)]

\* Strings are read a character at a time: the character at i, the rest
\* from i, str::starts_with and str::ends_with.
At(s, i) == SubSeq(s, i, i)
From(s, i) == SubSeq(s, i, Len(s))
starts_with(s, t) == Len(s) >= Len(t) /\ SubSeq(s, 1, Len(t)) = t
ends_with(s, t) == Len(s) >= Len(t) /\ SubSeq(s, Len(s) - Len(t) + 1, Len(s)) = t

\* The first place at or after i of a character of cs in s; Len(s) + 1 when
\* there is none.
RECURSIVE Find(_, _, _)
Find(s, cs, i) == IF i > Len(s) \/ At(s, i) \in cs THEN i ELSE Find(s, cs, i + 1)

\* str::split(sep)
RECURSIVE Split(_, _)
Split(s, sep) ==
  LET i == Find(s, {sep}, 1)
  IN IF i > Len(s) THEN <<s>>
     ELSE <<SubSeq(s, 1, i - 1)>> \o Split(From(s, i + 1), sep)

\* [str]::join(sep)
RECURSIVE Join(_, _)
Join(segs, sep) ==
  IF segs = <<>> THEN ""
  ELSE IF Len(segs) = 1 THEN segs[1]
  ELSE segs[1] \o sep \o Join(Tail(segs), sep)

\* The parts of a serialization "scheme:[//authority]path[?query][#fragment]".
SchemeEnd(u) == Find(u, {":"}, 1)
Scheme(u) == SubSeq(u, 1, SchemeEnd(u) - 1)
HasAuthority(u) == starts_with(From(u, SchemeEnd(u) + 1), "//")
\* A URL without authority whose path starts with "//" is written with "/."
\* before its path, which keeps the path from being read as an authority.
DotSlash(u) == starts_with(From(u, SchemeEnd(u) + 1), "/.//")
PathStart(u) ==
  IF HasAuthority(u) THEN Find(u, {"/", "?", "#"}, SchemeEnd(u) + 3)
  ELSE IF DotSlash(u) THEN SchemeEnd(u) + 3
  ELSE SchemeEnd(u) + 1
\* Url::path()
UrlPath(u) == SubSeq(u, PathStart(u), Find(u, {"?", "#"}, PathStart(u)) - 1)

\* Url::path_segments() is Some when the path starts with "/": it is None
\* for a URL that cannot be a base ("mailto:a") and for an empty path.
HasPathSegments(u) == starts_with(UrlPath(u), "/")
\* ... and then yields the path after that "/", split at "/".
path_segments(u) == Split(Tail(UrlPath(u)), "/")

\* url.path_segments().unwrap().collect::<Vec<_>>().len()
Segments(u) == Len(path_segments(u))

\* url.to_string().ends_with("/")
EndsWithSlash(u) == ends_with(u, "/")

\* Mutant: a "/" is put before the word whatever the URL ends with.
Candidate_AlwaysSlash(u, w) == u \o "/" \o w \o "/"

\* format!("{url}{word}/") or format!("{url}/{word}/"): the candidate as the
\* string given to the HTTP client.
Candidate(u, w) ==
  IF EndsWithSlash(u) THEN u \o w \o "/" ELSE u \o "/" \o w \o "/"

\* The schemes the URL parser calls special.
SpecialSchemes == {"http", "https", "ws", "wss", "ftp", "file"}

\* The characters the parser percent-encodes in a path, a query and a
\* fragment.  The characters of the model are those of printable ASCII, less
\* the backquote (encoded in a path and a fragment), which cannot stand in a
\* string here.
PATH == {" ", "\"", "<", ">", "#", "?", "{", "}"}
QUERY == {" ", "\"", "#", "<", ">"}
SPECIAL_QUERY == QUERY \cup {"'"}
FRAGMENT == {" ", "\"", "<", ">"}

PercentCode(c) ==
  CASE c = " " -> "%20" [] c = "\"" -> "%22" [] c = "#" -> "%23"
    [] c = "'" -> "%27" [] c = "<" -> "%3C" [] c = ">" -> "%3E"
    [] c = "?" -> "%3F" [] c = "{" -> "%7B" [] c = "}" -> "%7D"

RECURSIVE percent_encode(_, _)
percent_encode(s, set) ==
  IF s = "" THEN ""
  ELSE (IF Head(s) \in set THEN PercentCode(Head(s)) ELSE Head(s))
         \o percent_encode(Tail(s), set)

\* The parser drops every tab and newline of its input.
RECURSIVE StripTabNewline(_)
StripTabNewline(s) ==
  IF s = "" THEN ""
  ELSE (IF Head(s) \in {"\t", "\n", "\r"} THEN "" ELSE Head(s))
         \o StripTabNewline(Tail(s))

\* The segments the parser takes for ".." and for ".".
DoubleDot ==
  {"..", ".%2e", ".%2E", "%2e.", "%2E.", "%2e%2e", "%2e%2E", "%2E%2e", "%2E%2E"}
SingleDot == {".", "%2e", "%2E"}

\* The path after the segment buf has ended, at a separator (slash) or at
\* the end of the path: ".." removes the segment before it (none at the
\* root), "." adds nothing, and either leaves an empty last segment when it
\* ends the path; any other segment is kept, an empty one too.
EndSegment(segs, buf, slash) ==
  IF buf \in DoubleDot
    THEN LET p == IF segs = <<>> THEN segs ELSE Front(segs)
         IN IF slash THEN p ELSE Append(p, "")
  ELSE IF buf \in SingleDot THEN (IF slash THEN segs ELSE Append(segs, ""))
  ELSE Append(segs, percent_encode(buf, PATH))

\* The path of a URL with an authority: segments end at "/" (and at "\" in
\* a special scheme), the path ends at "?" or "#".
RECURSIVE ParsePath(_, _, _, _)
ParsePath(special, segs, buf, rest) ==
  IF rest = "" \/ Head(rest) \in {"?", "#"}
    THEN [segs |-> EndSegment(segs, buf, FALSE), rest |-> rest]
  ELSE IF Head(rest) = "/" \/ (special /\ Head(rest) = "\\")
    THEN ParsePath(special, EndSegment(segs, buf, TRUE), "", Tail(rest))
  ELSE ParsePath(special, segs, buf \o Head(rest), Tail(rest))

\* What follows the path: "?" and the query up to a "#", "#" and the
\* fragment.
ParseQueryFragment(special, rest) ==
  LET h == Find(rest, {"#"}, 1)
      q == SubSeq(rest, 1, h - 1)
      f == From(rest, h)
  IN (IF q = "" THEN ""
      ELSE "?" \o percent_encode(Tail(q), IF special THEN SPECIAL_QUERY ELSE QUERY))
     \o (IF f = "" THEN "" ELSE "#" \o percent_encode(Tail(f), FRAGMENT))

\* Url::parse on a candidate, a serialization with a word and "/" added:
\* scheme and authority are those of the serialization, the rest is parsed
\* as path, query and fragment.  A URL that cannot be a base keeps its path
\* as it is written.
UrlParse(input) ==
  LET c == StripTabNewline(input)
      p == PathStart(c)
      special == Scheme(c) \in SpecialSchemes
      rest == From(c, p)
      slash == starts_with(rest, "/") \/ (special /\ starts_with(rest, "\\"))
  IN IF ~slash /\ ~special
       THEN LET e == Find(rest, {"?", "#"}, 1)
            IN SubSeq(c, 1, p - 1) \o SubSeq(rest, 1, e - 1)
                 \o ParseQueryFragment(special, From(rest, e))
       ELSE LET r == ParsePath(special, <<>>, "", IF slash THEN Tail(rest) ELSE rest)
                parsed == "/" \o Join(r.segs, "/")
            IN (IF HasAuthority(c) THEN SubSeq(c, 1, p - 1)
                ELSE SubSeq(c, 1, SchemeEnd(c))
                       \o (IF starts_with(parsed, "//") THEN "/." ELSE ""))
                 \o parsed \o ParseQueryFragment(special, r.rest)

\* http::Uri::try_from(&str), by which the client takes the candidate
\* (buster.rs:137): Err for a character the http crate refuses in a path or
\* in a query; the fragment is cut off unread.
UriPathRefused == {" ", "<", ">", "\t", "\n", "\r"}
UriQueryRefused == {" ", "\"", "<", ">", "\t", "\n", "\r"}

RECURSIVE HasCharOf(_, _)
HasCharOf(s, cs) == s # "" /\ (Head(s) \in cs \/ HasCharOf(Tail(s), cs))

\* The client can send a request for c: its scheme is one the client
\* speaks and the URI parses.
Sendable(c) ==
  LET p == PathStart(c)
      q == Find(c, {"?", "#"}, p)
      h == Find(c, {"#"}, q)
  IN /\ Scheme(c) \in {"http", "https"}
     /\ ~HasCharOf(SubSeq(c, p, q - 1), UriPathRefused)
     /\ ~HasCharOf(SubSeq(c, q + 1, h - 1), UriQueryRefused)

\* ------------------------------------------------------------------ slices
slice_size(len, n) == len \div n

\* words[SliceStart .. SliceEnd] of thread thr of n over len words
SliceStart(len, n, thr) == slice_size(len, n) * thr

\* Mutant: the last thread's slice is as long as the others'.
SliceEnd_NoRemainder(len, n, thr) == slice_size(len, n) * thr + slice_size(len, n)

\* Mutant: when there are fewer words than threads the first thread takes
\* them all.
SliceEnd_FirstTakesAll(len, n, thr) ==
  IF slice_size(len, n) = 0 THEN (IF thr = 0 THEN len ELSE 0)
  ELSE IF thr # n - 1 THEN slice_size(len, n) * thr + slice_size(len, n) ELSE len

SliceEnd(len, n, thr) ==
  IF thr # n - 1 THEN slice_size(len, n) * thr + slice_size(len, n) ELSE len

\* ------------------------------------------------------------------ engine
Idle ==
  [i |-> 0, hi |-> 0, ph |-> "get", cand |-> "", ok |-> FALSE, status |-> 0,
   found |-> <<>>]

\* Who sent a message: the driver in or after pass p is <<p>>, the worker of
\* thread thr at word index i of pass p is <<p, thr, i>>.
Send(m, who) ==
  /\ chan' = Append(chan, m)
  /\ origin' = Append(origin, who)

Passes == Len(scanned)

\* Sender::send returns Ok while the receiver is alive; .expect("SENDER ERROR")
\* panics when it is not.
Alive == rx = "alive"

\* What a GET comes back with (buster.rs:137): a response with its status,
\* or a transport error.
Response(status) == [ok |-> TRUE, status |-> status]
TransportError == [ok |-> FALSE, status |-> 0]
Outcomes == {Response(s) : s \in Statuses} \cup {TransportError}

\* A server that can give any outcome, and one that is there and answers
\* 200 or 404.
AnyServer == [answers |-> Outcomes, others |-> MaxOthers]
PlainAnswers == {Response(200), Response(NOT_FOUND)}

\* The engines, wordlist files and servers explored; a file that cannot be
\* opened has no content.  A pool of which two threads have words is
\* followed over its base URL only (limit 0).
Configs ==
  {c \in [threads : PoolSizes, recursion_depth : 0 .. MaxDepth,
          uri : BaseUrls, exists : BOOLEAN, content : Files,
          server : {AnyServer}] :
     /\ ~c.exists => c.content = <<>>
     /\ c.threads > 1 /\ Len(c.content) > 1 => c.recursion_depth = 0}

\* Buster::new(..) with configuration c (buster.rs:33-49); run() not yet
\* called.
EngineWith(c) ==
  /\ threads = c.threads
  /\ recursion_depth = c.recursion_depth
  /\ uri = c.uri
  /\ file = [exists |-> c.exists, content |-> c.content]
  /\ server = c.server
  /\ pc = "start"
  /\ urls_vec = <<>>
  /\ lines = <<>>
  /\ progress_len = 0
  /\ path_len_start = 0
  /\ url = ""
  /\ workers = <<>>
  /\ result = <<>>
  /\ joined = 0
  /\ client = 0
  /\ chan = <<>>
  /\ rx = "alive"
  /\ origin = <<>>
  /\ gets = <<>>
  /\ scanned = <<>>

EngineInit == \E c \in Configs : EngineWith(c)

\* One thread over two words from http://h/, to a depth that lets a
\* discovery's own discoveries be scanned.
DeepConfig ==
  [threads |-> 1, recursion_depth |-> DeepDepth, uri |-> "http://h/",
   exists |-> TRUE, content |-> FileOf(<<"a", "b">>),
   server |-> [answers |-> PlainAnswers, others |-> DeepOthers]]

\* Two threads over two words, one level deep, against a server with one
\* path that is there: what one thread finds is scanned by the pool again.
PanicConfig ==
  [threads |-> 2, recursion_depth |-> 1, uri |-> "http://h/",
   exists |-> TRUE, content |-> FileOf(<<"a", "b">>),
   server |-> [answers |-> PlainAnswers, others |-> 1]]

\* Iterator::map_while(Result::ok): the values up to the first Err.
RECURSIVE MapWhileOk(_)
MapWhileOk(rs) ==
  IF rs = <<>> \/ ~rs[1].ok THEN <<>>
  ELSE <<rs[1].val>> \o MapWhileOk(SubSeq(rs, 2, Len(rs)))

\* buster.rs:55-56: BufReader::new(file).lines().map_while(Result::ok).collect()
ReadLines(content) == MapWhileOk(content)

\* A run over a file that has a line of invalid UTF-8, or a blank line.
ReadConfigs ==
  [threads : {1}, recursion_depth : {0}, uri : {"http://h/"}, exists : {TRUE},
   content : BrokenFiles, server : {AnyServer}]

\* Runs over the inputs the URL parser and the client treat in a way of
\* their own.  Words: plain, with a "/", a percent-encoded "..", a "?", a
\* space (which the client refuses), a "\" and a plain "..".  Base URLs:
\* plain, with a query, with a fragment, and one that cannot be a base.
\* Limits: 0, 1 and usize::MAX.
UrlWords == {"a", "a/b", "%2e%2e", "a?x", "a b", "a\\b", ".."}
UrlBases == {"http://h/", "http://h/a/", "http://h/a/?q", "http://h/a/#f", "mailto:a"}
UrlConfigs ==
  [threads : {1}, recursion_depth : {0, 1, USIZE_MAX}, uri : UrlBases,
   exists : {TRUE}, content : {FileOf(<<w>>) : w \in UrlWords},
   server : {AnyServer}]

\* Mutant: the size of the total stream is announced before the wordlist
\* is opened.
RunStart_AnnouncesFirst ==
  /\ pc = "start"
  /\ Send(set_total_size(0), <<1>>)
  /\ IF ~file.exists
       THEN /\ pc' = "err"
            /\ UNCHANGED <<lines, progress_len, path_len_start, urls_vec>>
       ELSE /\ lines' = ReadLines(file.content)
            /\ progress_len' = Len(ReadLines(file.content))
            /\ urls_vec' = <<uri>>
            /\ IF HasPathSegments(uri)
                 THEN path_len_start' = Segments(uri) /\ pc' = "loop"
                 ELSE pc' = "panic" /\ UNCHANGED path_len_start
  /\ UNCHANGED <<otherVars, cfgVars, url, workers, result, joined,
                 gets, scanned>>

\* buster.rs:52-59: seed the frontier, open and read the wordlist, count the
\* base URL's segments.  File::open's error is returned by `?`; the unwrap
\* of line 59 panics for a base URL that has no path segments.
RunStart ==
  /\ pc = "start"
  /\ IF ~file.exists
       THEN /\ pc' = "err"
            /\ UNCHANGED <<lines, progress_len, path_len_start, urls_vec>>
       ELSE /\ lines' = ReadLines(file.content)
            /\ progress_len' = Len(ReadLines(file.content))
            /\ urls_vec' = <<uri>>
            /\ IF HasPathSegments(uri)
                 THEN path_len_start' = Segments(uri) /\ pc' = "loop"
                 ELSE pc' = "panic" /\ UNCHANGED path_len_start
  /\ UNCHANGED <<otherVars, cfgVars, url, workers, result, joined,
                 chan, origin, gets, scanned>>

\* x > y for two usize (the top bit set makes the larger one).
UsizeGt(x, y) == IF (x < 0) = (y < 0) THEN x > y ELSE x < 0

\* The usize subtraction of buster.rs:62 when it does not underflow.
Admissible(u) == ~UsizeGt(Segments(u) - path_len_start, recursion_depth)

\* Mutant: the frontier is a queue: the oldest entry is taken.
RunPop_Fifo ==
  /\ pc = "loop"
  /\ urls_vec # <<>>
  /\ LET u == urls_vec[1]
     IN /\ urls_vec' = SubSeq(urls_vec, 2, Len(urls_vec))
        /\ \/ /\ Segments(u) < path_len_start
              /\ pc' = "panic"
              /\ url' = url
           \/ IF UsizeGt(Segments(u) - path_len_start, recursion_depth)
                THEN pc' = "loop" /\ url' = url
                ELSE pc' = "set_total" /\ url' = u
  /\ UNCHANGED <<otherVars, cfgVars, lines, progress_len,
                 path_len_start, workers, result, joined, chan, origin, gets, scanned>>

\* buster.rs:61-66: pop the next frontier URL; skip it when it is too deep.
\* Segments(u) < path_len_start underflows the usize subtraction: a build
\* with overflow checks panics; one without wraps, to 2^64 less the
\* shortfall, and compares that with the limit like any other difference.
RunPop ==
  /\ pc = "loop"
  /\ urls_vec # <<>>
  /\ LET u == Last(urls_vec)
     IN /\ urls_vec' = Front(urls_vec)
        /\ \/ /\ Segments(u) < path_len_start
              /\ pc' = "panic"
              /\ url' = url
           \/ IF UsizeGt(Segments(u) - path_len_start, recursion_depth)
                THEN pc' = "loop" /\ url' = url
                ELSE pc' = "set_total" /\ url' = u
  /\ UNCHANGED <<otherVars, cfgVars, lines, progress_len,
                 path_len_start, workers, result, joined, chan, origin, gets, scanned>>

\* Mutant: the size of the current stream is announced in place of the
\* total's.
RunSetTotal_CurrentFirst ==
  /\ pc = "set_total"
  /\ Send(set_current_size(progress_len), <<Passes + 1>>)
  /\ pc' = "set_current"
  /\ UNCHANGED <<otherVars, cfgVars, urls_vec, lines, progress_len,
                 path_len_start, url, workers, result, joined, gets, scanned>>

\* Mutant: every pass announces the wordlist's length as the total.
RunSetTotal_WordlistLength ==
  /\ pc = "set_total"
  /\ Send(set_total_size(Len(lines)), <<Passes + 1>>)
  /\ pc' = "set_current"
  /\ UNCHANGED <<otherVars, cfgVars, urls_vec, lines, progress_len,
                 path_len_start, url, workers, result, joined, gets, scanned>>

\* buster.rs:70-72
RunSetTotal ==
  /\ pc = "set_total"
  /\ IF Alive THEN Send(set_total_size(progress_len), <<Passes + 1>>) /\ pc' = "set_current"
              ELSE pc' = "sender_error" /\ UNCHANGED <<chan, origin>>
  /\ UNCHANGED <<otherVars, cfgVars, urls_vec, lines, progress_len,
                 path_len_start, url, workers, result, joined, gets, scanned>>

\* buster.rs:74-76
RunSetCurrent ==
  /\ pc = "set_current"
  /\ IF Alive THEN Send(set_current_size(progress_len), <<Passes + 1>>) /\ pc' = "execute"
              ELSE pc' = "sender_error" /\ UNCHANGED <<chan, origin>>
  /\ UNCHANGED <<otherVars, cfgVars, urls_vec, lines, progress_len,
                 path_len_start, url, workers, result, joined, gets, scanned>>

\* Mutant: a slice that starts one word late.
Spawned_SkipsFirstWord(thr) ==
  [Idle EXCEPT !.i = SliceStart(Len(lines), threads, thr) + 1,
               !.hi = SliceEnd(Len(lines), threads, thr)]

\* What thread thr starts with (buster.rs:120-128): its slice and no result.
Spawned(thr) ==
  [Idle EXCEPT !.i = SliceStart(Len(lines), threads, thr),
               !.hi = SliceEnd(Len(lines), threads, thr)]

\* buster.rs:93-126: execute() divides by the pool size, builds its Agent,
\* then spawns the pool.
ExecuteSpawn ==
  /\ pc = "execute"
  /\ scanned' = Append(scanned, url)
  /\ IF threads = 0
       THEN pc' = "panic" /\ UNCHANGED <<workers, result, joined, client>>
       ELSE /\ client' = client + 1
            /\ workers' = [k \in 1 .. threads |-> Spawned(k - 1)]
            /\ result' = <<>>
            /\ joined' = 0
            /\ pc' = "join"
  /\ UNCHANGED <<builderVars, sliceVars, tuiVars, rx, cfgVars, urls_vec, lines, progress_len,
                 path_len_start, url, chan, origin, gets>>

\* Thread k of the pool has not been joined.  The scope of the pool waits
\* for its threads even when the driver has panicked inside it.
Running(k) == pc \in {"join", "sender_error"} /\ k \in 1 .. Len(workers) /\ k > joined

\* The thread has panicked: in the worker closure, or on a failed send.
Terminated(w) == w.ph \in {"panicked", "sender_error"}

Finished(k) ==
  \/ workers[k].ph = "get" /\ workers[k].i >= workers[k].hi
  \/ Terminated(workers[k])

\* Mutant: a transport error is taken for a discovery.
IsDiscovery_ErrorCounts(o) == ~o.ok \/ o.status # NOT_FOUND

\* Mutant: only a status below 400 is a discovery.
IsDiscovery_OnlySuccess(o) == o.ok /\ o.status < 400

\* buster.rs:140: a response is a discovery unless its status is 404.
IsDiscovery(o) == o.ok /\ o.status # NOT_FOUND

\* Mutant: a 404 is printed like any other response.
OutcomeMessage_PrintsNotFound(c, o) ==
  IF ~o.ok THEN Progress("Current", "Print", 0, ErrorText(c))
  ELSE Progress("Current", "Print", 0, GetText(c, Styled("cyan", o.status)))

\* buster.rs:142-149, 162-169, 177-184: the message sent for an outcome.
OutcomeMessage(c, o) ==
  IF ~o.ok THEN Progress("Current", "Print", 0, ErrorText(c))
  ELSE IF o.status # NOT_FOUND
    THEN Progress("Current", "Print", 0, GetText(c, Styled("cyan", o.status)))
    ELSE Progress("Current", "SetMessage", 0, GetText(c, Styled("red", o.status)))

\* Mutant: a transport error skips the Advance of the current stream.
AfterOutcome_ErrorSkipsCurrent(o) ==
  IF o.ok /\ o.status # NOT_FOUND THEN "log"
  ELSE IF o.ok THEN "advance_current" ELSE "advance_total"

\* Mutant: a discovery is printed and not logged.
AfterOutcome_SkipsLog(o) == "advance_current"

\* Where the worker goes after that message: to the Log of a discovery
\* (buster.rs:152), else straight to the Advance pair (buster.rs:190).
AfterOutcome(o) == IF IsDiscovery(o) THEN "log" ELSE "advance_current"

\* The GETs of the run that came back with anything but a 404.
Others == Cardinality({n \in DOMAIN gets : gets[n].outcome # Response(NOT_FOUND)})

\* What the GET of candidate c can come back with: a request the client
\* cannot make is a transport error; any other is answered by the server,
\* with a 404 once it has given all its other answers.
OutcomesOf(c) ==
  IF ~Sendable(c) THEN {TransportError}
  ELSE IF Others < server.others THEN server.answers
  ELSE server.answers \cap {Response(NOT_FOUND)}

\* buster.rs:130-137: form the candidate for the next word of the slice and
\* GET it; the thread waits in call() until the outcome is there.
WorkerGet(k) ==
  /\ Running(k)
  /\ workers[k].ph = "get"
  /\ workers[k].i < workers[k].hi
  /\ LET w == workers[k]
         c == Candidate(url, lines[w.i + 1])
         who == <<Passes, k - 1, w.i>>
     IN \E o \in OutcomesOf(c) :
          /\ gets' = Append(gets, [by |-> who, url |-> c, outcome |-> o,
                                     client |-> client])
          /\ workers' = [workers EXCEPT ![k].ph = "match",
                                        ![k].cand = c,
                                        ![k].ok = o.ok,
                                        ![k].status = o.status]
  /\ UNCHANGED <<otherVars, cfgVars, pc, urls_vec, lines, progress_len,
                 path_len_start, url, result, joined, chan, origin, scanned>>

\* buster.rs:137-185: call() has returned; send the message its outcome
\* calls for.
WorkerMatch(k) ==
  /\ Running(k)
  /\ workers[k].ph = "match"
  /\ LET w == workers[k]
         o == [ok |-> w.ok, status |-> w.status]
     IN IF Alive
          THEN /\ Send(OutcomeMessage(w.cand, o), <<Passes, k - 1, w.i>>)
               /\ workers' = [workers EXCEPT ![k].ph = AfterOutcome(o)]
          ELSE /\ workers' = [workers EXCEPT ![k].ph = "sender_error"]
               /\ UNCHANGED <<chan, origin>>
  /\ UNCHANGED <<otherVars, cfgVars, pc, urls_vec, lines, progress_len,
                 path_len_start, url, result, joined, gets, scanned>>

\* buster.rs:152-159: log the discovery and keep its parsed URL.
WorkerLog(k) ==
  /\ Running(k)
  /\ workers[k].ph = "log"
  /\ LET w == workers[k]
     IN IF Alive
          THEN /\ Send(log("INFO", FoundText(w.cand, w.status)), <<Passes, k - 1, w.i>>)
               /\ workers' = [workers EXCEPT ![k].ph = "advance_current",
                                             ![k].found = Append(w.found, UrlParse(w.cand))]
          ELSE /\ workers' = [workers EXCEPT ![k].ph = "sender_error"]
               /\ UNCHANGED <<chan, origin>>
  /\ UNCHANGED <<otherVars, cfgVars, pc, urls_vec, lines, progress_len,
                 path_len_start, url, result, joined, gets, scanned>>

\* Mutant: the first Advance of a probe goes to the total stream too.
WorkerAdvanceCurrent_SendsTotal(k) ==
  /\ Running(k)
  /\ workers[k].ph = "advance_current"
  /\ Send(advance_total, <<Passes, k - 1, workers[k].i>>)
  /\ workers' = [workers EXCEPT ![k].ph = "advance_total"]
  /\ UNCHANGED <<otherVars, cfgVars, pc, urls_vec, lines, progress_len,
                 path_len_start, url, result, joined, gets, scanned>>

\* buster.rs:190-192
WorkerAdvanceCurrent(k) ==
  /\ Running(k)
  /\ workers[k].ph = "advance_current"
  /\ IF Alive
       THEN /\ Send(advance_current, <<Passes, k - 1, workers[k].i>>)
            /\ workers' = [workers EXCEPT ![k].ph = "advance_total"]
       ELSE /\ workers' = [workers EXCEPT ![k].ph = "sender_error"]
            /\ UNCHANGED <<chan, origin>>
  /\ UNCHANGED <<otherVars, cfgVars, pc, urls_vec, lines, progress_len,
                 path_len_start, url, result, joined, gets, scanned>>

\* buster.rs:194-197: the second Advance ends the probe; on to the next word.
WorkerAdvanceTotal(k) ==
  /\ Running(k)
  /\ workers[k].ph = "advance_total"
  /\ IF Alive
       THEN /\ Send(advance_total, <<Passes, k - 1, workers[k].i>>)
            /\ workers' = [workers EXCEPT ![k].ph = "get", ![k].i = @ + 1]
       ELSE /\ workers' = [workers EXCEPT ![k].ph = "sender_error"]
            /\ UNCHANGED <<chan, origin>>
  /\ UNCHANGED <<otherVars, cfgVars, pc, urls_vec, lines, progress_len,
                 path_len_start, url, result, joined, gets, scanned>>

\* format!("Panic in thread: {err:?}")
PanicText == <<"Panic in thread: ", "err">>

\* Mutant: a panicked thread is logged as an error.
PanicLog_AsError == log("ERROR", PanicText)

\* buster.rs:212-217
PanicLog == log("CRITICAL", PanicText)

\* Mutant: what a joined thread found is put before what is already there.
ExecuteJoin_Prepends ==
  /\ pc = "join"
  /\ joined < Len(workers)
  /\ Finished(joined + 1)
  /\ result' = workers[joined + 1].found \o result
  /\ joined' = joined + 1
  /\ UNCHANGED <<otherVars, cfgVars, pc, urls_vec, lines, progress_len,
                 path_len_start, url, workers, chan, origin, gets, scanned>>

\* buster.rs:202-219: join the next thread, in spawn order, once it has
\* ended.  What a returned thread found is appended (the closure returns
\* Ok only, so the Ok(Err) arm is never taken); a panicked thread is logged
\* by the driver, as <<pass, thread>>, and what it had found is lost.
ExecuteJoin ==
  /\ pc = "join"
  /\ joined < Len(workers)
  /\ Finished(joined + 1)
  /\ IF ~Terminated(workers[joined + 1])
       THEN /\ result' = result \o workers[joined + 1].found
            /\ joined' = joined + 1
            /\ UNCHANGED <<pc, chan, origin>>
       ELSE IF Alive
         THEN /\ Send(PanicLog, <<Passes, joined>>)
              /\ joined' = joined + 1
              /\ UNCHANGED <<pc, result>>
         ELSE /\ pc' = "sender_error"
              /\ UNCHANGED <<chan, origin, result, joined>>
  /\ UNCHANGED <<otherVars, cfgVars, urls_vec, lines, progress_len,
                 path_len_start, url, workers, gets, scanned>>

\* The consumer drops the receiver while run() is under way.
DropReceiver ==
  /\ Alive
  /\ pc \in {"start", "loop", "set_total", "set_current", "execute", "join",
             "finish_total"}
  /\ rx' = "dropped"
  /\ UNCHANGED <<builderVars, sliceVars, tuiVars, client, cfgVars, pc, urls_vec, lines, progress_len,
                 path_len_start, url, workers, result, joined, chan, origin,
                 gets, scanned>>

\* A worker panics inside its closure, on its way to its next GET.
WorkerPanic(k) ==
  /\ pc = "join"
  /\ Running(k)
  /\ workers[k].ph = "get"
  /\ workers[k].i < workers[k].hi
  /\ workers' = [workers EXCEPT ![k].ph = "panicked"]
  /\ UNCHANGED <<otherVars, cfgVars, pc, urls_vec, lines, progress_len,
                 path_len_start, url, result, joined, chan, origin, gets, scanned>>

\* Mutant: execute() returns when the first thread of the pool is joined.
RunExtend_AfterFirstJoin ==
  /\ pc = "join"
  /\ joined >= 1
  /\ progress_len' = progress_len + Len(result) * Len(lines)
  /\ urls_vec' = urls_vec \o result
  /\ pc' = "loop"
  /\ UNCHANGED <<otherVars, cfgVars, lines, path_len_start, url,
                 workers, result, joined, chan, origin, gets, scanned>>

\* Mutant: the URL just scanned is put back on the frontier.
RunExtend_RequeuesUrl ==
  /\ pc = "join"
  /\ joined = Len(workers)
  /\ progress_len' = progress_len + Len(result) * Len(lines)
  /\ urls_vec' = urls_vec \o <<url>> \o result
  /\ pc' = "loop"
  /\ UNCHANGED <<otherVars, cfgVars, lines, path_len_start, url,
                 workers, result, joined, chan, origin, gets, scanned>>

\* Mutant: the total grows by one per discovery.
RunExtend_CountsUrls ==
  /\ pc = "join"
  /\ joined = Len(workers)
  /\ progress_len' = progress_len + Len(result)
  /\ urls_vec' = urls_vec \o result
  /\ pc' = "loop"
  /\ UNCHANGED <<otherVars, cfgVars, lines, path_len_start, url,
                 workers, result, joined, chan, origin, gets, scanned>>

\* buster.rs:223 and 78-81: execute() returns; the driver grows the total
\* and pushes the discoveries.
RunExtend ==
  /\ pc = "join"
  /\ joined = Len(workers)
  /\ progress_len' = progress_len + Len(result) * Len(lines)
  /\ urls_vec' = urls_vec \o result
  /\ pc' = "loop"
  /\ UNCHANGED <<otherVars, cfgVars, lines, path_len_start, url,
                 workers, result, joined, chan, origin, gets, scanned>>

\* Mutant: the total stream is finished first (and again by the next step).
RunFinishCurrent_TotalFirst ==
  /\ pc = "loop"
  /\ urls_vec = <<>>
  /\ Send(finish_total, <<Passes>>)
  /\ pc' = "finish_total"
  /\ UNCHANGED <<otherVars, cfgVars, urls_vec, lines, progress_len,
                 path_len_start, url, workers, result, joined, gets, scanned>>

\* Mutant: the current stream is finished only when there was work.
RunFinishCurrent_OnlyAfterWork ==
  /\ pc = "loop"
  /\ urls_vec = <<>>
  /\ IF progress_len = 0 THEN UNCHANGED <<chan, origin>>
                         ELSE Send(finish_current, <<Passes>>)
  /\ pc' = "finish_total"
  /\ UNCHANGED <<otherVars, cfgVars, urls_vec, lines, progress_len,
                 path_len_start, url, workers, result, joined, gets, scanned>>

\* buster.rs:61 and 84-86: the frontier is empty; finish the current stream.
RunFinishCurrent ==
  /\ pc = "loop"
  /\ urls_vec = <<>>
  /\ IF Alive THEN Send(finish_current, <<Passes>>) /\ pc' = "finish_total"
              ELSE pc' = "sender_error" /\ UNCHANGED <<chan, origin>>
  /\ UNCHANGED <<otherVars, cfgVars, urls_vec, lines, progress_len,
                 path_len_start, url, workers, result, joined, gets, scanned>>

\* buster.rs:87-90: finish the total stream and return Ok(()).
RunFinishTotal ==
  /\ pc = "finish_total"
  /\ IF Alive THEN Send(finish_total, <<Passes>>) /\ pc' = "done"
              ELSE pc' = "sender_error" /\ UNCHANGED <<chan, origin>>
  /\ UNCHANGED <<otherVars, cfgVars, urls_vec, lines, progress_len,
                 path_len_start, url, workers, result, joined, gets, scanned>>

\* No engine has been built.
EngineOff ==
  /\ threads = 0
  /\ recursion_depth = 0
  /\ uri = ""
  /\ file = [exists |-> FALSE, content |-> <<>>]
  /\ server = [answers |-> {}, others |-> 0]
  /\ pc = "off"
  /\ urls_vec = <<>>
  /\ lines = <<>>
  /\ progress_len = 0
  /\ path_len_start = 0
  /\ url = ""
  /\ workers = <<>>
  /\ result = <<>>
  /\ joined = 0
  /\ client = 0
  /\ chan = <<>>
  /\ rx = "alive"
  /\ origin = <<>>
  /\ gets = <<>>
  /\ scanned = <<>>

\* ----------------------------------------------------------------- builder
\* Option<T>: None is <<>>, Some(x) is <<x>>.
NoneOpt == <<>>
Some(x) == <<x>>

\* BuilderError (worker/builder.rs:16-38)
UrlParseError(e) == <<"UrlParseError", e>>
TargetNotSpecified == <<"TargetNotSpecified">>
WordlistNotSpecified == <<"WordlistNotSpecified">>
InvalidFilePath == <<"InvalidFilePath">>
FileNotFound(path) == <<"FileNotFound", path>>
NotAFile(path) == <<"NotAFile", path>>
SenderChannelNotSpecified == <<"SenderChannelNotSpecified">>

\* The file system the builder looks at: a regular file, a directory and a
\* name that is not there.
Paths == {"words.txt", "wordlists", "missing.txt"}
PathExists(path) == path \in {"words.txt", "wordlists"}
PathIsFile(path) == path = "words.txt"
\* PathBuf::from(&str).to_str(): a path made from a string is valid UTF-8.
PathToStr(path) == Some(path)

\* Url::parse on the strings given to uri() and proxy_url(): the parsed URL
\* (host and path segments) or url::ParseError.
UrlParseStr(s) ==
  CASE s = "http://h" -> Ok([host |-> "h", path |-> <<"">>])
    [] s = "http://h/a" -> Ok([host |-> "h", path |-> <<"a">>])
    [] s = "http://p:8080" -> Ok([host |-> "p:8080", path |-> <<"">>])
    [] s = "h/a" -> Err("RelativeUrlWithoutBase")
    [] s = "http://" -> Err("EmptyHost")

UriInputs == {"http://h", "http://h/a", "h/a"}
ProxyInputs == {"", "http://p:8080", "http://"}
ThreadInputs == {0, 2}
RecursiveInputs == {1}
TimeoutInputs == {9}
Senders == {"tx"}

\* WorkerBuilder::default() (worker/builder.rs:40-50)
WorkerBuilderDefault ==
  [threads |-> NoneOpt, recursion |-> NoneOpt, timeout |-> NoneOpt,
   wordlist |-> NoneOpt, uri |-> NoneOpt, proxy_uri |-> NoneOpt,
   error |-> NoneOpt, message_sender |-> NoneOpt]

\* worker/builder.rs:54-61
WB_threads(b, n) ==
  IF b.error # NoneOpt THEN b ELSE [b EXCEPT !.threads = Some(n)]

\* worker/builder.rs:63-66
WB_message_sender(b, sender) == [b EXCEPT !.message_sender = Some(sender)]

\* worker/builder.rs:68-75
WB_recursive(b, n) ==
  IF b.error # NoneOpt THEN b ELSE [b EXCEPT !.recursion = Some(n)]

\* worker/builder.rs:77-84
WB_timeout(b, n) ==
  IF b.error # NoneOpt THEN b ELSE [b EXCEPT !.timeout = Some(n)]

\* Mutant: wordlist() without the check for a latched error.
WB_wordlist_Unguarded(b, path) ==
  IF ~PathExists(path) THEN [b EXCEPT !.error = Some(FileNotFound(path))]
  ELSE IF ~PathIsFile(path) THEN [b EXCEPT !.error = Some(NotAFile(path))]
  ELSE [b EXCEPT !.wordlist = Some(path)]

\* Mutant: wordlist() asks whether the path is a file before it asks
\* whether it exists.
WB_wordlist_FileCheckFirst(b, path) ==
  IF b.error # NoneOpt THEN b
  ELSE IF ~PathIsFile(path) THEN [b EXCEPT !.error = Some(NotAFile(path))]
  ELSE IF ~PathExists(path) THEN [b EXCEPT !.error = Some(FileNotFound(path))]
  ELSE [b EXCEPT !.wordlist = Some(path)]

\* worker/builder.rs:86-110
WB_wordlist(b, path) ==
  IF b.error # NoneOpt THEN b
  ELSE IF ~PathExists(path) THEN [b EXCEPT !.error = Some(FileNotFound(path))]
  ELSE IF ~PathIsFile(path) THEN [b EXCEPT !.error = Some(NotAFile(path))]
  ELSE IF PathToStr(path) = NoneOpt THEN [b EXCEPT !.error = Some(InvalidFilePath)]
  ELSE [b EXCEPT !.wordlist = Some(path)]

\* worker/builder.rs:112-128
WB_uri(b, s) ==
  IF b.error # NoneOpt THEN b
  ELSE IF ~UrlParseStr(s).ok
    THEN [b EXCEPT !.error = Some(UrlParseError(UrlParseStr(s).val))]
    ELSE [b EXCEPT !.uri = Some(UrlParseStr(s).val)]

\* worker/builder.rs:130-146
WB_proxy_url(b, s) ==
  IF b.error # NoneOpt \/ s = "" THEN b
  ELSE IF ~UrlParseStr(s).ok
    THEN [b EXCEPT !.error = Some(UrlParseError(UrlParseStr(s).val))]
    ELSE [b EXCEPT !.proxy_uri = Some(UrlParseStr(s).val)]

\* Mutant: the default whatever the option holds.
UnwrapOr_AlwaysDefault(opt, default) == default

\* Option::unwrap_or
UnwrapOr(opt, default) == IF opt = NoneOpt THEN default ELSE opt[1]

\* worker/builder.rs:167-175: the arguments of Worker::new
WorkerArgs(b) ==
  [threads |-> UnwrapOr(b.threads, DEFAULT_THREADS_NUMBER),
   recursion_depth |-> UnwrapOr(b.recursion, DEFAULT_RECURSIVE_MODE),
   timeout |-> UnwrapOr(b.timeout, DEFAULT_TIMEOUT),
   wordlist |-> b.wordlist[1],
   uri |-> b.uri[1],
   message_sender |-> b.message_sender[1],
   proxy_uri |-> b.proxy_uri]

\* Mutant: build() looks for the wordlist before the target.
WB_build_WordlistFirst(b) ==
  IF b.error # NoneOpt THEN Err(b.error[1])
  ELSE IF b.wordlist = NoneOpt THEN Err(WordlistNotSpecified)
  ELSE IF b.uri = NoneOpt THEN Err(TargetNotSpecified)
  ELSE IF b.message_sender = NoneOpt THEN Err(SenderChannelNotSpecified)
  ELSE Ok(WorkerArgs(b))

\* worker/builder.rs:148-176
WB_build(b) ==
  IF b.error # NoneOpt THEN Err(b.error[1])
  ELSE IF b.uri = NoneOpt THEN Err(TargetNotSpecified)
  ELSE IF b.wordlist = NoneOpt THEN Err(WordlistNotSpecified)
  ELSE IF b.message_sender = NoneOpt THEN Err(SenderChannelNotSpecified)
  ELSE Ok(WorkerArgs(b))

BuilderInit ==
  /\ builder = WorkerBuilderDefault
  /\ built = NoneOpt
  /\ calls = <<>>

\* One setter call on the builder, which build() has not yet consumed; the
\* history keeps the argument as text.
Call(op, arg, b) ==
  /\ built = NoneOpt
  /\ Len(calls) < MaxCalls
  /\ builder' = b
  /\ calls' = Append(calls, <<op, arg>>)
  /\ UNCHANGED <<built, engineVars, sliceVars, tuiVars>>

CallThreads == \E n \in ThreadInputs : Call("threads", ToString(n), WB_threads(builder, n))
CallMessageSender ==
  \E s \in Senders : Call("message_sender", s, WB_message_sender(builder, s))
CallRecursive == \E n \in RecursiveInputs : Call("recursive", ToString(n), WB_recursive(builder, n))
CallTimeout == \E n \in TimeoutInputs : Call("timeout", ToString(n), WB_timeout(builder, n))
CallWordlist == \E path \in Paths : Call("wordlist", path, WB_wordlist(builder, path))
CallUri == \E s \in UriInputs : Call("uri", s, WB_uri(builder, s))
CallProxyUrl == \E s \in ProxyInputs : Call("proxy_url", s, WB_proxy_url(builder, s))

\* build() consumes the builder.
CallBuild ==
  /\ built = NoneOpt
  /\ built' = Some(WB_build(builder))
  /\ UNCHANGED <<builder, calls, engineVars, sliceVars, tuiVars>>

\* ------------------------------------------------------ slices on their own
SliceInit ==
  /\ sl_len \in 0 .. MaxSliceLen
  /\ sl_threads \in 1 .. MaxSliceThreads
  /\ sl_done = <<>>

\* buster.rs:110-126: the next thread of the pool takes its slice.
SliceThread ==
  /\ Len(sl_done) < sl_threads
  /\ LET thr == Len(sl_done)
     IN sl_done' = Append(sl_done, [lo |-> SliceStart(sl_len, sl_threads, thr),
                                    hi |-> SliceEnd(sl_len, sl_threads, thr)])
  /\ UNCHANGED <<sl_len, sl_threads, engineVars, builderVars, tuiVars>>

\* ------------------------------------------------------------ TUI consumer
\* VecDeque: the front is the first element.
push_front(q, x) == <<x>> \o q
push_back(q, x) == Append(q, x)
pop_front(q) == SubSeq(q, 2, Len(q))

\* WorkerVariant::Worker(done)
Worker(done) == <<"Worker", done>>

\* The WorkerState of a worker that has just been started (tui/app.rs:392):
\* nothing shown, not done.
WorkerStateStarted ==
  [worker |-> Worker(FALSE), current_parsing |-> "",
   log |-> <<>>, messages |-> <<>>,
   progress_all_total |-> 1, progress_all_now |-> 0,
   progress_current_total |-> 1, progress_current_now |-> 0]

\* tui/app.rs:100-115: a message of the total stream.
OnTotal(s, m) ==
  CASE m.change = "SetSize" -> [s EXCEPT !.progress_all_total = m.size]
    [] m.change = "Advance" -> [s EXCEPT !.progress_all_now = @ + 1]
    [] m.change = "Finish" -> [s EXCEPT !.current_parsing = "Done!",
                                        !.worker = Worker(TRUE)]
    [] OTHER -> s

\* Mutant: the oldest Print is kept and the newest dropped.
OnPrint_DropsNewest(messages, text) ==
  IF Len(messages) >= MESSAGES_MAX THEN messages ELSE push_back(messages, text)

\* tui/app.rs:130-136
OnPrint(messages, text) ==
  LET pushed == push_back(messages, text)
  IN IF Len(pushed) > MESSAGES_MAX THEN pop_front(pushed) ELSE pushed

\* tui/app.rs:117-138: a message of the current stream.
OnCurrent(s, m) ==
  CASE m.change = "SetMessage" -> [s EXCEPT !.current_parsing = m.text]
    [] m.change = "SetSize" -> [s EXCEPT !.progress_current_now = 0,
                                         !.progress_current_total = m.size]
    [] m.change = "Advance" -> [s EXCEPT !.progress_current_now = @ + 1]
    [] m.change = "Print" -> [s EXCEPT !.messages = OnPrint(@, m.text)]
    [] OTHER -> s

\* "[WARN] ".to_owned() + &str and the like (tui/app.rs:146-148); the
\* CRITICAL prefix has no space after it.
LogLine(level, str) ==
  CASE level = "WARN" -> <<"[WARN] ", str>>
    [] level = "ERROR" -> <<"[ERROR] ", str>>
    [] level = "CRITICAL" -> <<"[CRITICAL]", str>>

\* tui/app.rs:142-154: a Log message.
OnLog(s, m) ==
  LET pushed == IF m.level \in {"WARN", "ERROR", "CRITICAL"}
                  THEN push_front(s.log, LogLine(m.level, m.text))
                  ELSE s.log
  IN [s EXCEPT !.log = IF Len(pushed) > LOG_MAX THEN pop_front(pushed) ELSE pushed]

\* tui/app.rs:96-155: the match on a received message.
OnMessage(s, m) ==
  IF m.kind = "Log" THEN OnLog(s, m)
  ELSE IF m.stream = "Total" THEN OnTotal(s, m)
  ELSE OnCurrent(s, m)

\* The messages a consumer is sent: the n-th carries the text n.
LogLevels == {"INFO", "WARN", "ERROR", "CRITICAL"}
Logs(levels) == [i \in DOMAIN levels |-> log(levels[i], ToString(i))]
\* up to two logs of any levels, then up to MaxLogs of one level
LogScripts ==
  {Logs(f \o [i \in 1 .. n |-> l]) :
     f \in UNION {[1 .. k -> LogLevels] : k \in 0 .. 2},
     l \in LogLevels, n \in 0 .. MaxLogs}
Prints(n) == [i \in 1 .. n |-> Progress("Current", "Print", 0, ToString(i))]
\* every kind of Progress message
ProgressKinds ==
  {Progress(s, "SetMessage", 0, "m") : s \in {"Total", "Current"}}
    \cup {Progress(s, "Print", 0, "p") : s \in {"Total", "Current"}}
    \cup {Progress(s, c, 3, <<>>) : s \in {"Total", "Current"}, c \in {"SetSize", "Start"}}
    \cup {advance_total, advance_current, finish_total, finish_current}
\* Prints alone, a Finish after them, and any Progress message among them
PrintScripts ==
  {Prints(n) : n \in 0 .. MaxPrints}
    \cup {Prints(n) \o <<m>> \o Prints(1) : n \in 0 .. 2, m \in ProgressKinds}
    \cup {<<a, b>> : a \in ProgressKinds, b \in {finish_total, finish_current}}

TuiIdle == tui_rx = <<>> /\ tui = WorkerStateStarted /\ tui_seen = <<>>

\* A started worker whose messages wait in the receiver.
TuiInit ==
  /\ tui_rx \in LogScripts \cup PrintScripts
  /\ tui = WorkerStateStarted
  /\ tui_seen = <<>>

\* tui/app.rs:95-157: one turn of the loop for this worker: try_recv, and
\* the match on what was received.
AppRecv ==
  /\ tui_rx # <<>>
  /\ tui' = OnMessage(tui, tui_rx[1])
  /\ tui_rx' = SubSeq(tui_rx, 2, Len(tui_rx))
  /\ tui_seen' = Append(tui_seen, tui_rx[1])
  /\ UNCHANGED <<engineVars, builderVars, sliceVars>>

\* ---------------------------------------------------------- specifications
BuilderIdle == builder = WorkerBuilderDefault /\ built = NoneOpt /\ calls = <<>>
SliceIdle == sl_len = 0 /\ sl_threads = 0 /\ sl_done = <<>>

\* One run of an engine.
Init == EngineInit /\ BuilderIdle /\ SliceIdle /\ TuiIdle

Next ==
  \/ RunStart
  \/ RunPop
  \/ RunSetTotal
  \/ RunSetCurrent
  \/ ExecuteSpawn
  \/ \E k \in DOMAIN workers : WorkerGet(k)
  \/ \E k \in DOMAIN workers : WorkerMatch(k)
  \/ \E k \in DOMAIN workers : WorkerLog(k)
  \/ \E k \in DOMAIN workers : WorkerAdvanceCurrent(k)
  \/ \E k \in DOMAIN workers : WorkerAdvanceTotal(k)
  \/ ExecuteJoin
  \/ RunExtend
  \/ RunFinishCurrent
  \/ RunFinishTotal

Spec == Init /\ [][Next]_vars

\* One builder: setter calls, then build().
InitBuilder == EngineOff /\ BuilderInit /\ SliceIdle /\ TuiIdle

NextBuilder ==
  \/ CallThreads
  \/ CallMessageSender
  \/ CallRecursive
  \/ CallTimeout
  \/ CallWordlist
  \/ CallUri
  \/ CallProxyUrl
  \/ CallBuild

\* One run whose consumer may drop the receiver.
NextDrop ==
  \/ RunStart
  \/ RunPop
  \/ RunSetTotal
  \/ RunSetCurrent
  \/ ExecuteSpawn
  \/ \E k \in DOMAIN workers : WorkerGet(k)
  \/ \E k \in DOMAIN workers : WorkerMatch(k)
  \/ \E k \in DOMAIN workers : WorkerLog(k)
  \/ \E k \in DOMAIN workers : WorkerAdvanceCurrent(k)
  \/ \E k \in DOMAIN workers : WorkerAdvanceTotal(k)
  \/ ExecuteJoin
  \/ RunExtend
  \/ RunFinishCurrent
  \/ RunFinishTotal
  \/ DropReceiver

SpecDrop == Init /\ [][NextDrop]_vars

\* One run whose workers may panic.
NextPanic ==
  \/ RunStart
  \/ RunPop
  \/ RunSetTotal
  \/ RunSetCurrent
  \/ ExecuteSpawn
  \/ \E k \in DOMAIN workers : WorkerGet(k)
  \/ \E k \in DOMAIN workers : WorkerMatch(k)
  \/ \E k \in DOMAIN workers : WorkerLog(k)
  \/ \E k \in DOMAIN workers : WorkerAdvanceCurrent(k)
  \/ \E k \in DOMAIN workers : WorkerAdvanceTotal(k)
  \/ \E k \in DOMAIN workers : WorkerPanic(k)
  \/ ExecuteJoin
  \/ RunExtend
  \/ RunFinishCurrent
  \/ RunFinishTotal

\* It is a run of an engine of Configs or of PanicConfig.
InitPanic ==
  (EngineInit \/ EngineWith(PanicConfig)) /\ BuilderIdle /\ SliceIdle /\ TuiIdle

SpecPanic == InitPanic /\ [][NextPanic]_vars

\* One run that can go two levels below its base URL.
InitDeep == EngineWith(DeepConfig) /\ BuilderIdle /\ SliceIdle /\ TuiIdle

SpecDeep == InitDeep /\ [][Next]_vars

\* One run over a file whose lines are not all valid UTF-8.
InitRead == (\E c \in ReadConfigs : EngineWith(c)) /\ BuilderIdle /\ SliceIdle /\ TuiIdle

SpecRead == InitRead /\ [][Next]_vars

\* One run over a word or a base URL of UrlConfigs.
InitUrl == (\E c \in UrlConfigs : EngineWith(c)) /\ BuilderIdle /\ SliceIdle /\ TuiIdle

SpecUrl == InitUrl /\ [][Next]_vars

SpecBuilder == InitBuilder /\ [][NextBuilder]_vars

\* The slice assignment of one pool over one wordlist.
InitSlice == EngineOff /\ BuilderIdle /\ SliceInit /\ TuiIdle

NextSlice == SliceThread

SpecSlice == InitSlice /\ [][NextSlice]_vars

\* The TUI consumer of one worker.
InitTui == EngineOff /\ BuilderIdle /\ SliceIdle /\ TuiInit

NextTui == AppRecv

SpecTui == InitTui /\ [][NextTui]_vars

\* ------------------------------------------------------- reading the run
\* How often m is on the channel.
Count(m) == Cardinality({k \in DOMAIN chan : chan[k] = m})

\* The places on the channel of what `who` sent.
SentBy(who) == {k \in DOMAIN chan : origin[k] = who}

\* The worker that issued GET g is still at work on that probe.
OnProbe(g) ==
  /\ pc = "join"
  /\ g.by[1] = Passes
  /\ workers[g.by[2] + 1].i = g.by[3]

\* The worker that issued GET g has yet to send the message of its outcome.
BeforeMatch(g) == OnProbe(g) /\ workers[g.by[2] + 1].ph = "match"

\* The worker that issued GET g has yet to send the Log of its discovery.
BeforeLog(g) == OnProbe(g) /\ workers[g.by[2] + 1].ph = "log"

Discoveries == {n \in DOMAIN gets : IsDiscovery(gets[n].outcome)}
NotFounds == {n \in DOMAIN gets : gets[n].outcome = Response(NOT_FOUND)}
Failures == {n \in DOMAIN gets : gets[n].outcome = TransportError}

\* ------------------------------------------------------------------ claims

\* C1: when run() has returned success, the last two messages on the channel
\* are Progress(Current, Finish) then Progress(Total, Finish); each was sent
\* once, and at no time does any message follow either of them other than
\* Progress(Total, Finish) following Progress(Current, Finish).
C1_FinishPairIsLast ==
  /\ \A k \in DOMAIN chan :
       /\ chan[k] = finish_current =>
            \/ k = Len(chan)
            \/ k = Len(chan) - 1 /\ chan[Len(chan)] = finish_total
       /\ chan[k] = finish_total =>
            k = Len(chan) /\ k > 1 /\ chan[k - 1] = finish_current
  /\ pc = "done" =>
       /\ Len(chan) >= 2
       /\ chan[Len(chan) - 1] = finish_current
       /\ chan[Len(chan)] = finish_total
       /\ Count(finish_current) = 1
       /\ Count(finish_total) = 1

\* A run of two threads over two words with a discovery has returned.
C1_Witness ==
  /\ pc = "done"
  /\ threads = 2
  /\ Len(lines) = 2
  /\ Discoveries # {}

\* C2: every GET attempt is a probe of its own, and its worker sends for it
\* at most one Progress(Current, Advance) and at most one
\* Progress(Total, Advance), and exactly one of each by the time it leaves
\* the probe, whatever the outcome; no Advance is sent but for a GET.
C2_AdvancePairPerGet ==
  /\ \A m, n \in DOMAIN gets : gets[m].by = gets[n].by => m = n
  /\ \A n \in DOMAIN gets :
       LET mine == SentBy(gets[n].by)
           nc == Cardinality({k \in mine : chan[k] = advance_current})
           nt == Cardinality({k \in mine : chan[k] = advance_total})
       IN /\ nc <= 1
          /\ nt <= 1
          /\ ~OnProbe(gets[n]) => nc = 1 /\ nt = 1
  /\ \A k \in DOMAIN chan :
       chan[k] \in {advance_current, advance_total} =>
         \E n \in DOMAIN gets : gets[n].by = origin[k]

\* A run has returned after a transport error, a 404 and a discovery.
C2_Witness ==
  /\ pc = "done"
  /\ Failures # {}
  /\ NotFounds # {}
  /\ Discoveries # {}

\* C3: when run() has returned, the channel holds as many
\* Progress(Current, Advance) as Progress(Total, Advance), and of each the
\* wordlist length times the number of URLs scanned.
C3_AdvancesAreWordsTimesScans ==
  pc = "done" =>
    /\ Count(advance_current) = Len(lines) * Len(scanned)
    /\ Count(advance_total) = Len(lines) * Len(scanned)

\* A run over two words has returned after scanning three URLs.
C3_Witness ==
  /\ pc = "done"
  /\ Len(lines) = 2
  /\ Len(scanned) = 3
  /\ Count(advance_total) = 6

\* C4: the worker of a probe answered with a status other than 404 sends one
\* Progress(Current, Print("GET <c> -> <status>")), no SetMessage and one
\* Log(INFO, "<c> -> <status>") (none before the Print, one once it is past
\* its Log step); the worker of a probe answered 404 sends one
\* Progress(Current, SetMessage("GET <c> -> 404")), no Print and no Log.
\* The Print or SetMessage is there once the worker is past the step that
\* follows the answer.
C4_DiscoveryPrintAndLog ==
  \A n \in DOMAIN gets :
    LET g == gets[n]
        mine == SentBy(g.by)
        prints == {k \in mine : chan[k].change = "Print"}
        setmsgs == {k \in mine : chan[k].change = "SetMessage"}
        logs == {k \in mine : chan[k].kind = "Log"}
    IN /\ IsDiscovery(g.outcome) =>
            /\ Cardinality(prints) = (IF BeforeMatch(g) THEN 0 ELSE 1)
            /\ \A k \in prints :
                 chan[k] = Progress("Current", "Print", 0,
                                    GetText(g.url, Styled("cyan", g.outcome.status)))
            /\ setmsgs = {}
            /\ Cardinality(logs) = (IF BeforeMatch(g) \/ BeforeLog(g) THEN 0 ELSE 1)
            /\ \A k \in logs : chan[k] = log("INFO", FoundText(g.url, g.outcome.status))
       /\ g.outcome = Response(NOT_FOUND) =>
            /\ prints = {}
            /\ logs = {}
            /\ Cardinality(setmsgs) = (IF BeforeMatch(g) THEN 0 ELSE 1)
            /\ \A k \in setmsgs :
                 chan[k] = Progress("Current", "SetMessage", 0,
                                    GetText(g.url, Styled("red", NOT_FOUND)))

\* A run has returned after a 403 and a 404.
C4_Witness ==
  /\ pc = "done"
  /\ \E n \in Discoveries : gets[n].outcome.status = 403
  /\ NotFounds # {}

\* C5: no URL deeper than the limit is passed to the pool, and with a limit
\* of 0 exactly one pass, over the base URL, is run.
C5_DepthCapOnePass ==
  /\ \A n \in DOMAIN scanned : Segments(scanned[n]) - path_len_start <= recursion_depth
  /\ recursion_depth = 0 => Len(scanned) <= 1

\* ------------------------------------------------------------ slice claims
SlicesDone == sl_threads >= 1 /\ Len(sl_done) = sl_threads
Holders(idx) == {thr \in DOMAIN sl_done : sl_done[thr].lo <= idx /\ idx < sl_done[thr].hi}

\* C6: for every wordlist length L >= 0 and pool size N >= 1, the slices the
\* threads take are a partition of [0, L): every line index lies in exactly
\* one slice, and every slice's bounds satisfy 0 <= lo <= hi <= L.
C6_SlicesPartitionLines ==
  /\ \A thr \in DOMAIN sl_done :
       /\ 0 <= sl_done[thr].lo
       /\ sl_done[thr].lo <= sl_done[thr].hi
       /\ sl_done[thr].hi <= sl_len
  /\ SlicesDone => \A idx \in 0 .. sl_len - 1 : Cardinality(Holders(idx)) = 1

\* A pool of 3 has sliced 5 lines, so the last thread took the remainder.
C6_Witness ==
  /\ SlicesDone
  /\ sl_len = 5
  /\ sl_threads = 3
  /\ sl_done[3] = [lo |-> 2, hi |-> 5]

\* ---------------------------------------------------------- builder claims
Built == built # NoneOpt
Latched == builder.error # NoneOpt
Called(i, op, arg) == i \in DOMAIN calls /\ calls[i] = <<op, arg>>

\* C7: once a setter has latched an error, no later setter call changes it,
\* and build() returns that first error.
C7_FirstErrorLatched ==
  /\ [][Latched => builder'.error = builder.error]_vars
  /\ [](Built /\ Latched => built[1] = Err(builder.error[1]))

\* uri() latched a parse error, a later wordlist() call named a regular file,
\* and build() returned the parse error.
C7_Witness ==
  /\ Built
  /\ built[1] = Err(UrlParseError("RelativeUrlWithoutBase"))
  /\ \E i, j \in DOMAIN calls :
       /\ i < j
       /\ Called(i, "uri", "h/a")
       /\ Called(j, "wordlist", "words.txt")

\* C8: after an error is latched, every setter call (threads, recursive,
\* timeout, wordlist, uri, proxy_url, message_sender) leaves every field of
\* the builder as it was.
C8_SettersNoOpAfterLatch ==
  [][Latched /\ calls' # calls => builder' = builder]_vars

\* C9: build() returns the latched error if there is one, else
\* TargetNotSpecified if no target is set, else WordlistNotSpecified if no
\* wordlist is set, else SenderChannelNotSpecified if no sender is set, and
\* a worker only when all three are set and no error is latched.
C9_BuildPrecedence ==
  Built =>
    LET r == built[1] IN
    /\ Latched => r = Err(builder.error[1])
    /\ ~Latched /\ builder.uri = NoneOpt => r = Err(TargetNotSpecified)
    /\ ~Latched /\ builder.uri # NoneOpt /\ builder.wordlist = NoneOpt
         => r = Err(WordlistNotSpecified)
    /\ ~Latched /\ builder.uri # NoneOpt /\ builder.wordlist # NoneOpt
         /\ builder.message_sender = NoneOpt
         => r = Err(SenderChannelNotSpecified)
    /\ r.ok <=> /\ ~Latched
                /\ builder.uri # NoneOpt
                /\ builder.wordlist # NoneOpt
                /\ builder.message_sender # NoneOpt

\* build() found neither target nor wordlist and reported the target, and a
\* sender had been set.
C9_Witness ==
  /\ Built
  /\ ~Latched
  /\ builder.uri = NoneOpt
  /\ builder.wordlist = NoneOpt
  /\ builder.message_sender # NoneOpt
  /\ built[1] = Err(TargetNotSpecified)

\* C10: threads(0) is rejected: build() never returns a worker whose pool
\* size is 0.
C10_ZeroThreadsRejected ==
  Built /\ built[1].ok => built[1].val.threads >= 1

\* ------------------------------------------------------------ fault claims
\* C11: once the consumer has dropped the receiver, a failed send is fatal
\* but clean: neither the driver nor any worker panics on it.
C11_ReceiverDropIsClean ==
  ~Alive =>
    /\ pc # "sender_error"
    /\ \A k \in DOMAIN workers : workers[k].ph # "sender_error"

\* The messages `who` sent whose change is c.
Changes(who, c) == {k \in SentBy(who) : chan[k].change = c}

\* The discoveries thread k of the running pass has logged.
Logged(k) ==
  {n \in Discoveries : /\ gets[n].by[1] = Passes
                       /\ gets[n].by[2] = k - 1
                       /\ ~BeforeMatch(gets[n])
                       /\ ~BeforeLog(gets[n])}

\* C12: a probe that ends in a transport error sends one
\* Progress(Current, Print("Error while sending request to <c>: <e>")) (it
\* is there once the worker is past the step that follows the error), no
\* SetMessage and no Log, and adds no discovery; its worker goes on to the
\* Advance pair and has sent one of each when it leaves the probe; a run
\* that returned has probed every word of every pass; and a returned run
\* whose probes all failed holds L error Prints, no Log and L Advances on
\* each stream.
C12_TransportErrorNotFatal ==
  /\ \A n \in Failures :
       LET g == gets[n] IN
       /\ Cardinality(Changes(g.by, "Print")) = (IF BeforeMatch(g) THEN 0 ELSE 1)
       /\ \A k \in Changes(g.by, "Print") :
            chan[k] = Progress("Current", "Print", 0, ErrorText(g.url))
       /\ Changes(g.by, "SetMessage") = {}
       /\ \A k \in SentBy(g.by) : chan[k].kind # "Log"
       /\ OnProbe(g) =>
            workers[g.by[2] + 1].ph \in {"match", "advance_current", "advance_total"}
       /\ ~OnProbe(g) =>
            /\ \E k \in SentBy(g.by) : chan[k] = advance_current
            /\ \E k \in SentBy(g.by) : chan[k] = advance_total
  /\ pc = "join" =>
       \A k \in DOMAIN workers : Len(workers[k].found) = Cardinality(Logged(k))
  /\ pc = "done" => Len(gets) = Len(lines) * Len(scanned)
  /\ pc = "done" /\ Failures = DOMAIN gets =>
       /\ Cardinality({k \in DOMAIN chan : chan[k].change = "Print"}) = Len(lines)
       /\ \A k \in DOMAIN chan : chan[k].kind # "Log"
       /\ Count(advance_current) = Len(lines)
       /\ Count(advance_total) = Len(lines)

\* A run over two words has returned, both probes having failed.
C12_Witness ==
  /\ pc = "done"
  /\ Len(lines) = 2
  /\ Len(gets) = 2
  /\ Failures = DOMAIN gets

\* What the threads 1 .. k of the running pass hand to the driver, in
\* thread order: what each found, unless it panicked.
RECURSIVE FoundUpTo(_)
FoundUpTo(k) ==
  IF k = 0 THEN <<>>
  ELSE FoundUpTo(k - 1) \o
       (IF Terminated(workers[k]) THEN <<>> ELSE workers[k].found)

\* The words of its slice thread k of the running pass has probed.
Probed(k) == {n \in DOMAIN gets : gets[n].by[1] = Passes /\ gets[n].by[2] = k - 1}

\* C13: for a worker that panicked the driver sends one
\* Log(CRITICAL, "Panic in thread: ...") when it joins it, and none for any
\* other; every other worker of the pass probes its whole slice and its
\* discoveries reach the driver; the driver does not panic on it, and a run
\* that returns ends with the Finish pair.
C13_WorkerPanicIsLogged ==
  /\ \A k \in DOMAIN chan :
       (chan[k].level = "CRITICAL" \/ Len(origin[k]) = 2) =>
         chan[k] = log("CRITICAL", PanicText) /\ Len(origin[k]) = 2
  /\ pc = "join" =>
       /\ \A k \in DOMAIN workers :
            Cardinality(SentBy(<<Passes, k - 1>>)) =
              (IF workers[k].ph = "panicked" /\ k <= joined THEN 1 ELSE 0)
       /\ result = FoundUpTo(joined)
       /\ \A k \in 1 .. joined :
            ~Terminated(workers[k]) =>
              /\ workers[k].i = workers[k].hi
              /\ Cardinality(Probed(k)) =
                   SliceEnd(Len(lines), threads, k - 1)
                     - SliceStart(Len(lines), threads, k - 1)
  /\ pc # "sender_error"
  /\ pc = "done" =>
       /\ chan[Len(chan) - 1] = finish_current
       /\ chan[Len(chan)] = finish_total

\* Thread 0 of the first pass panicked and was logged, thread 1 made a
\* discovery, the pool scanned it and run() returned.
C13_Witness ==
  /\ pc = "done"
  /\ Len(scanned) = 2
  /\ \E n \in DOMAIN gets : gets[n].by[1] = 2
  /\ \E k \in DOMAIN chan : origin[k] = <<1, 0>> /\ chan[k].level = "CRITICAL"
  /\ \E n \in Discoveries : gets[n].by = <<1, 1, 1>>

\* ---------------------------------------------------------- order claims
\* The places on the channel where the driver announced the size of
\* `stream` for pass p.
SetSizeAt(p, stream) ==
  {k \in DOMAIN chan : /\ origin[k] = <<p>>
                       /\ chan[k].change = "SetSize"
                       /\ chan[k].stream = stream}

\* C14: for every URL passed to the pool, Progress(Total, SetSize) and then
\* Progress(Current, SetSize) were sent for it, and both stand on the
\* channel before every message a worker of that pass sent.
C14_SetSizeBeforePass ==
  /\ \A p \in 1 .. Len(scanned) :
       /\ Cardinality(SetSizeAt(p, "Total")) = 1
       /\ Cardinality(SetSizeAt(p, "Current")) = 1
       /\ \A a \in SetSizeAt(p, "Total") : \A b \in SetSizeAt(p, "Current") :
            /\ a < b
            /\ \A k \in DOMAIN chan :
                 Len(origin[k]) = 3 /\ origin[k][1] = p => b < k
  /\ \A k \in DOMAIN chan :
       Len(origin[k]) = 3 => origin[k][1] \in 1 .. Len(scanned)

\* A worker of a second pass over two words has sent a message.
C14_Witness ==
  /\ Len(lines) = 2
  /\ \E k \in DOMAIN chan : Len(origin[k]) = 3 /\ origin[k][1] = 2

\* C15: what the worker of a discovery sends for it is ordered Print,
\* Log(INFO), Advance(Current), Advance(Total): the Log follows the Print,
\* and an Advance is sent only after both and after the Advance before it.
C15_DiscoveryBeforeAdvance ==
  \A n \in Discoveries :
    LET mine == SentBy(gets[n].by)
        prints == {k \in mine : chan[k].change = "Print"}
        logs == {k \in mine : chan[k].kind = "Log"}
        advc == {k \in mine : chan[k] = advance_current}
        advt == {k \in mine : chan[k] = advance_total}
    IN /\ \A l \in logs : \E q \in prints : q < l
       /\ \A a \in advc : (\E q \in prints : q < a) /\ (\E l \in logs : l < a)
       /\ \A a \in advt : \E b \in advc : b < a

\* Two workers of one pass each made a discovery, and a message of the one
\* stands between the Print and the Advance(Total) of the other.
C15_Witness ==
  \E n, m \in Discoveries :
    /\ gets[n].by[1] = gets[m].by[1]
    /\ gets[n].by[2] # gets[m].by[2]
    /\ \E a, b \in SentBy(gets[n].by) : \E k \in SentBy(gets[m].by) :
         /\ a < k
         /\ k < b
         /\ chan[a].change = "Print"
         /\ chan[b] = advance_total

\* -------------------------------------------------------- counter claims
\* The places of the SetSize messages of `stream`, and the size the last of
\* them announced.
SetSizes(stream) ==
  {k \in DOMAIN chan : chan[k].change = "SetSize" /\ chan[k].stream = stream}
LastSize(stream) ==
  chan[CHOOSE k \in SetSizes(stream) : \A j \in SetSizes(stream) : j <= k].size

\* C16: when run() has returned, each stream holds as many Advance messages
\* as the last SetSize sent on it announced.
C16_CountersReachSize ==
  pc = "done" =>
    /\ SetSizes("Total") # {}
    /\ SetSizes("Current") # {}
    /\ Count(advance_total) = LastSize("Total")
    /\ Count(advance_current) = LastSize("Current")

\* 1 + L + ... + L^d
RECURSIVE PassBound(_, _)
PassBound(L, d) == IF d = 0 THEN 1 ELSE 1 + L * PassBound(L, d - 1)

\* C17: with the receiver alive and every GET answered, run() ends for every
\* wordlist, pool of at least one thread and depth limit d, having made at
\* most 1 + L + ... + L^d passes.
C17_PassesBounded ==
  threads >= 1 => Len(scanned) <= PassBound(Len(lines), recursion_depth)

\* C18: when the wordlist file cannot be opened, run() returns an error
\* and has sent nothing on the channel.
C18_NoWordlistNoMessage ==
  /\ ~file.exists => chan = <<>> /\ pc \in {"start", "err"}
  /\ pc = "err" => ~file.exists /\ chan = <<>>

\* run() has returned the error of File::open.
C18_Witness == pc = "err" /\ ~file.exists /\ threads = 2

\* -------------------------------------------------- builder claims, again
\* The calls of setter op, and the argument in force after them: that of
\* the last call, or the default when there was none.
CallsOf(op) == {i \in DOMAIN calls : calls[i][1] = op}
InForce(op, default) ==
  IF CallsOf(op) = {} THEN ToString(default)
  ELSE calls[CHOOSE i \in CallsOf(op) : \A j \in CallsOf(op) : j <= i][2]

\* C19: a worker built without a call of threads, recursive or timeout has
\* pool size 50, recursion depth limit 0 and timeout 5; a value given
\* through the setter replaces the default.  (build() returned a worker, so
\* no call came after a latched error.)
C19_DefaultsUnlessSet ==
  Built /\ built[1].ok =>
    /\ ToString(built[1].val.threads) = InForce("threads", 50)
    /\ ToString(built[1].val.recursion_depth) = InForce("recursive", 0)
    /\ ToString(built[1].val.timeout) = InForce("timeout", 5)

\* uri, wordlist and message_sender were called and nothing else, and
\* build() returned a worker with the three defaults.
C19_Witness ==
  /\ Built
  /\ built[1].ok
  /\ Len(calls) = 3
  /\ CallsOf("threads") \cup CallsOf("recursive") \cup CallsOf("timeout") = {}
  /\ built[1].val.threads = 50
  /\ built[1].val.recursion_depth = 0
  /\ built[1].val.timeout = 5

\* The step is a call of setter op on the builder.
CallOf(op) == Len(calls') = Len(calls) + 1 /\ calls'[Len(calls')][1] = op

\* C20: proxy_url(s) on a builder with no latched error: with s empty the
\* builder carries no proxy afterwards and no error is latched; with s
\* non-empty and parsing the proxy is set to it; with s non-empty and not
\* parsing UrlParseError is latched and the proxy is as it was.
C20_ProxyUrlCases ==
  [][~Latched /\ CallOf("proxy_url") =>
       LET s == calls'[Len(calls')][2] IN
       /\ s = "" => builder'.proxy_uri = NoneOpt /\ builder'.error = NoneOpt
       /\ s # "" /\ UrlParseStr(s).ok =>
            /\ builder'.proxy_uri = Some(UrlParseStr(s).val)
            /\ builder'.error = NoneOpt
       /\ s # "" /\ ~UrlParseStr(s).ok =>
            /\ builder'.error = Some(UrlParseError(UrlParseStr(s).val))
            /\ builder'.proxy_uri = builder.proxy_uri]_vars

\* The argument of the setter call the step makes.
CallArg == calls'[Len(calls')][2]

\* C21: wordlist(p) on a builder with no latched error latches FileNotFound
\* when p does not exist, else NotAFile when p is not a regular file, else
\* InvalidFilePath when p is not UTF-8, leaving the wordlist field as it
\* was; it sets the field to p, and latches nothing, when all three checks
\* pass.  uri(s) latches UrlParseError and leaves the uri field as it was
\* when s does not parse, and sets the field when it does.
C21_WordlistAndUriChecks ==
  [][/\ ~Latched /\ CallOf("wordlist") =>
          IF ~PathExists(CallArg)
            THEN /\ builder'.error = Some(FileNotFound(CallArg))
                 /\ builder'.wordlist = builder.wordlist
          ELSE IF ~PathIsFile(CallArg)
            THEN /\ builder'.error = Some(NotAFile(CallArg))
                 /\ builder'.wordlist = builder.wordlist
          ELSE IF PathToStr(CallArg) = NoneOpt
            THEN /\ builder'.error = Some(InvalidFilePath)
                 /\ builder'.wordlist = builder.wordlist
          ELSE /\ builder'.error = NoneOpt
               /\ builder'.wordlist = Some(CallArg)
     /\ ~Latched /\ CallOf("uri") =>
          IF UrlParseStr(CallArg).ok
            THEN /\ builder'.error = NoneOpt
                 /\ builder'.uri = Some(UrlParseStr(CallArg).val)
            ELSE /\ builder'.error = Some(UrlParseError(UrlParseStr(CallArg).val))
                 /\ builder'.uri = builder.uri]_vars

\* wordlist() was given a regular file and then a directory: NotAFile is
\* latched and the field still names the regular file.
C21_Witness ==
  /\ builder.error = Some(NotAFile("wordlists"))
  /\ builder.wordlist = Some("words.txt")
  /\ Len(calls) = 2

\* ------------------------------------------------------------ size claims
\* C22: the Progress(Current, SetSize(n)) sent at the start of every pass
\* has n = L, the wordlist length.
C22_CurrentSizeIsWordlist ==
  \A k \in SetSizes("Current") : chan[k].size = Len(lines)

\* The discoveries of the passes before pass p.
FoundBefore(p) == {n \in Discoveries : gets[n].by[1] < p}

\* C23: the Progress(Total, SetSize(n)) sent at the start of a pass has
\* n = L x (1 + the discoveries of all passes before it): L for the base
\* URL, never less than the size announced before; and between passes
\* progress_len is L x (1 + the discoveries so far).
C23_TotalSizeGrowsByDiscoveries ==
  /\ \A p \in 1 .. Len(scanned) : \A k \in SetSizeAt(p, "Total") :
       chan[k].size = Len(lines) * (1 + Cardinality(FoundBefore(p)))
  /\ \A j, k \in SetSizes("Total") : j < k => chan[j].size <= chan[k].size
  /\ pc = "loop" => progress_len = Len(lines) * (1 + Cardinality(Discoveries))

\* Over two words, the first pass made one discovery and the total was
\* announced as 2 and then as 4.
C23_Witness ==
  /\ Len(lines) = 2
  /\ Cardinality(FoundBefore(2)) = 1
  /\ \E j \in SetSizeAt(1, "Total") : chan[j].size = 2
  /\ \E k \in SetSizeAt(2, "Total") : chan[k].size = 4

\* --------------------------------------------------------- frontier claims
\* The discoveries of pass p, the URL each was recorded as, and the last of
\* them in wordlist order.
PassFound(p) == {n \in Discoveries : gets[n].by[1] = p}
FoundUrl(n) == UrlParse(gets[n].url)
LastFound(p) ==
  FoundUrl(CHOOSE n \in PassFound(p) :
             \A m \in PassFound(p) : gets[m].by[3] <= gets[n].by[3])

\* u is within the depth limit, its depth computed without underflow.
WithinLimit(u) ==
  Segments(u) >= path_len_start /\ Segments(u) - path_len_start <= recursion_depth

\* v is d or lies below d.
Below(d, v) == starts_with(v, d)

\* A step that changes the frontier seeds it with the base URL, pushes the
\* list a pass returned on top of it, in order, or takes its top entry,
\* which becomes the scan subject when it is within the limit.
FrontierStep ==
  urls_vec' # urls_vec =>
    \/ pc = "start" /\ urls_vec' = <<uri>>
    \/ pc = "join" /\ urls_vec' = urls_vec \o result
    \/ /\ pc = "loop"
       /\ urls_vec # <<>>
       /\ urls_vec' = Front(urls_vec)
       /\ Segments(Last(urls_vec)) >= path_len_start =>
            IF WithinLimit(Last(urls_vec))
              THEN pc' = "set_total" /\ url' = Last(urls_vec)
              ELSE pc' = "loop"

\* C24: the frontier is a stack: entries are pushed on top and the next URL
\* popped is the top one; after a pass that returned d1 .. dk the next URL
\* scanned is dk if it is within the limit, and the passes between the one
\* that found a URL and the one that scans it are over later discoveries of
\* the same pass and what lies below them.
C24_FrontierIsLifo ==
  /\ [][FrontierStep]_vars
  /\ [](\A p \in DOMAIN scanned :
          /\ (p < Len(scanned) /\ PassFound(p) # {} /\ WithinLimit(LastFound(p)))
               => scanned[p + 1] = LastFound(p)
          /\ \A q \in DOMAIN scanned : \A n \in PassFound(p) :
               (p < q /\ scanned[q] = FoundUrl(n)) =>
                 \A r \in p + 1 .. q - 1 :
                   \E m \in PassFound(p) :
                     /\ gets[m].by[3] > gets[n].by[3]
                     /\ Below(FoundUrl(m), scanned[r]))

\* The base pass found http://h/a/ and http://h/b/; http://h/b/ was scanned
\* next and then http://h/b/b/, found under it, while http://h/a/ waits.
C24_Witness ==
  /\ scanned = <<"http://h/", "http://h/b/", "http://h/b/b/">>
  /\ urls_vec = <<"http://h/a/">>

\* The entries pushed so far: the base URL and what the passes that have
\* returned found.
Pushed ==
  IF pc \in {"start", "err"} THEN 0
  ELSE 1 + Cardinality({n \in Discoveries : gets[n].by[1] < Passes \/ pc # "join"})

\* The entry popped and admitted whose pass has not yet begun.
InHand == IF pc \in {"set_total", "set_current", "execute"} THEN 1 ELSE 0

\* Where the driver can go: an entry is popped and admitted, announced on
\* both streams, scanned, and its pass returns to the loop.
DriverMoves ==
  {<<"start", "loop">>, <<"start", "err">>, <<"loop", "set_total">>,
   <<"loop", "panic">>, <<"set_total", "set_current">>,
   <<"set_current", "execute">>, <<"execute", "join">>, <<"execute", "panic">>,
   <<"join", "loop">>, <<"loop", "finish_total">>, <<"finish_total", "done">>}

\* C25: a frontier entry is consumed once: it leaves the frontier when it is
\* popped, is then skipped or scanned by one pass, and no step puts it
\* back; the entries waiting, in hand and scanned never outnumber those
\* pushed; and the frontier is empty when run() returns.
C25_EntryConsumedOnce ==
  /\ [][/\ pc' # pc => <<pc, pc'>> \in DriverMoves
        /\ scanned' # scanned =>
             pc = "execute" /\ pc' # "execute" /\ scanned' = Append(scanned, url)
        /\ Len(urls_vec') < Len(urls_vec) =>
             pc = "loop" /\ urls_vec' = Front(urls_vec)]_vars
  /\ [](Len(urls_vec) + InHand + Len(scanned) <= Pushed)
  /\ [](pc = "done" => urls_vec = <<>>)

\* run() has returned after three passes and three discoveries, one of
\* them skipped as too deep.
C25_Witness ==
  /\ pc = "done"
  /\ Len(scanned) = 3
  /\ Cardinality(Discoveries) = 3

\* ------------------------------------------------------------ pass claims
\* The discoveries of the running pass among the words before position i,
\* in wordlist order.
RECURSIVE FoundInOrder(_)
FoundInOrder(i) ==
  IF i = 0 THEN <<>>
  ELSE FoundInOrder(i - 1) \o
       (IF \E n \in PassFound(Passes) : gets[n].by[3] = i - 1 /\ ~BeforeLog(gets[n])
          THEN <<FoundUrl(CHOOSE n \in PassFound(Passes) : gets[n].by[3] = i - 1)>>
          ELSE <<>>)

\* The words before the slice that follows the slices of threads 1 .. k.
SlicedUpTo(k) == IF k = 0 THEN 0 ELSE SliceEnd(Len(lines), threads, k - 1)

\* C26: the list execute builds is the concatenation of what the joined
\* threads found, in slice order, each in the order of its slice; with all
\* threads joined it is the discovered candidates in wordlist order,
\* whatever the order in time of the probes.
C26_ResultInWordlistOrder ==
  pc = "join" =>
    /\ result = FoundInOrder(SlicedUpTo(joined))
    /\ joined = Len(workers) => result = FoundInOrder(Len(lines))

\* Two threads each made a discovery, the second thread first, and both
\* were joined.
C26_Witness ==
  /\ pc = "join"
  /\ joined = 2
  /\ Len(gets) = 2
  /\ gets[1].by = <<1, 1, 1>>
  /\ gets[2].by = <<1, 0, 0>>
  /\ Len(result) = 2

\* The pool has more threads than the wordlist has words.
SmallWordlist == pc \in {"join", "loop", "finish_total", "done"} /\ Len(lines) < threads

\* C27 as stated: with L < N no worker of index >= L issues a GET.
C27_HighWorkersIdle ==
  SmallWordlist => \A n \in DOMAIN gets : gets[n].by[2] < Len(lines)

\* C27, amended: with L < N the slice size is 0 and nothing panics on it;
\* every worker but the last has an empty slice and issues no GET; the last
\* worker's slice is the whole wordlist.
C27_LastWorkerTakesAll ==
  SmallWordlist =>
    /\ slice_size(Len(lines), threads) = 0
    /\ \A n \in DOMAIN gets : gets[n].by[2] = threads - 1
    /\ pc = "join" =>
         /\ \A k \in 1 .. threads - 1 : workers[k].i = 0 /\ workers[k].hi = 0
         /\ workers[threads].hi = Len(lines)
    /\ pc = "done" => Len(gets) = Len(lines) * Len(scanned)

\* Two threads over one word: run() has returned and the one GET was the
\* last thread's.
C27_Witness ==
  /\ pc = "done"
  /\ threads = 2
  /\ Len(lines) = 1
  /\ Len(gets) = 1
  /\ gets[1].by = <<1, 1, 0>>

\* C28: with an empty wordlist and a pool of at least one thread, run()
\* issues no GET, sends nothing but the two SetSize of its one pass and the
\* Finish pair, does not panic, and returns once the pair is sent.
C28_EmptyWordlist ==
  (file.exists /\ file.content = <<>> /\ threads >= 1) =>
    /\ gets = <<>>
    /\ \A k \in DOMAIN chan : chan[k].change \in {"SetSize", "Finish"}
    /\ Len(scanned) <= 1
    /\ pc # "panic"
    /\ pc = "done" =>
         chan = <<set_total_size(0), set_current_size(0), finish_current, finish_total>>

\* A pool of two has gone through an empty wordlist and run() has returned.
C28_Witness ==
  /\ pc = "done"
  /\ threads = 2
  /\ file.exists
  /\ lines = <<>>
  /\ Len(chan) = 4

\* Pass p has returned.
PassOver(p) == p < Passes \/ (p = Passes /\ pc \in {"loop", "finish_total", "done"})

\* The GETs of pass p.
PassGets(p) == {n \in DOMAIN gets : gets[n].by[1] = p}

\* C29: every GET of a pass over u is for one wordlist position and its
\* candidate is u + w + "/" when u ends with "/" and u + "/" + w + "/"
\* when it does not; no position is probed twice, and a pass that has
\* returned has probed every position: L GETs.
C29_OneGetPerWord ==
  /\ \A n \in DOMAIN gets :
       LET g == gets[n]
           u == scanned[g.by[1]]
       IN /\ g.by[3] \in 0 .. Len(lines) - 1
          /\ g.url = IF SubSeq(u, Len(u), Len(u)) = "/"
                       THEN u \o lines[g.by[3] + 1] \o "/"
                       ELSE u \o "/" \o lines[g.by[3] + 1] \o "/"
          /\ \A m \in DOMAIN gets :
               (gets[m].by[1] = g.by[1] /\ gets[m].by[3] = g.by[3]) => m = n
  /\ \A p \in DOMAIN scanned :
       PassOver(p) =>
         /\ Cardinality(PassGets(p)) = Len(lines)
         /\ \A i \in 0 .. Len(lines) - 1 : \E n \in PassGets(p) : gets[n].by[3] = i

\* Two threads have probed the two words under http://h/a, which does not
\* end with "/", and run() has returned.
C29_Witness ==
  /\ pc = "done"
  /\ uri = "http://h/a"
  /\ threads = 2
  /\ Len(gets) = 2
  /\ gets[1].url = "http://h/a/b/"
  /\ gets[2].url = "http://h/a/a/"

\* The GETs thread k of the running pass has done with (the Advance pair
\* sent) that were answered, and not with 404.
Answered(k) ==
  {n \in DOMAIN gets : /\ gets[n].by[1] = Passes
                       /\ gets[n].by[2] = k - 1
                       /\ gets[n].by[3] < workers[k].i
                       /\ gets[n].outcome.ok
                       /\ gets[n].outcome.status # 404}

\* C30: a worker's discovery list holds the candidates of its GETs that were
\* answered with a status other than 404 (403 as well as 200), one entry
\* each, and nothing for a 404 or a transport error; so does the list
\* execute returns.
C30_DiscoveryIffNot404 ==
  pc = "join" =>
    /\ \A k \in DOMAIN workers :
         workers[k].ph = "get" =>
           /\ Len(workers[k].found) = Cardinality(Answered(k))
           /\ \A j \in DOMAIN workers[k].found :
                \E n \in Answered(k) : workers[k].found[j] = UrlParse(gets[n].url)
    /\ joined = Len(workers) =>
         Len(result) = Cardinality(UNION {Answered(k) : k \in DOMAIN workers})

\* A pass has returned after a 403, which is in the list, and a 404 or a
\* transport error, which is not.
C30_Witness ==
  /\ pc = "join"
  /\ joined = Len(workers)
  /\ \E n \in PassGets(Passes) : gets[n].outcome = Response(403)
  /\ \E n \in PassGets(Passes) :
       gets[n].outcome = Response(404) \/ gets[n].outcome = TransportError
  /\ Len(result) = 1

\* C31: the frontier never holds a URL deeper below the base URL than the
\* recursion limit: every entry u has segments(u) - base_depth <= limit.
C31_FrontierWithinLimit ==
  \A i \in DOMAIN urls_vec :
    Segments(urls_vec[i]) - path_len_start <= recursion_depth

\* The values of the Ok entries of rs, in order.
RECURSIVE OkValues(_)
OkValues(rs) ==
  IF rs = <<>> THEN <<>>
  ELSE (IF rs[1].ok THEN <<rs[1].val>> ELSE <<>>) \o OkValues(SubSeq(rs, 2, Len(rs)))

\* C32: the wordlist of a run is the file's lines in file order without the
\* lines of invalid UTF-8 and nothing else removed: blank lines are kept, and
\* so is every valid line, before or after an invalid one.
C32_WordlistIsValidLines ==
  pc \notin {"start", "err", "off"} => lines = OkValues(file.content)

\* C33: a run builds one HTTP client, and every GET of the run, whatever its
\* pass and thread, is issued through that one client.
C33_OneClientPerRun ==
  /\ pc = "done" => client = 1
  /\ \A n, m \in DOMAIN gets : gets[n].client = gets[m].client

\* The driver is outside execute(), a pass behind it.
BetweenPasses ==
  /\ pc \in {"loop", "set_total", "set_current", "execute", "finish_total", "done"}
  /\ Passes >= 1

\* chan[k] was sent by a worker thread.
ByWorker(k) == Len(origin[k]) = 3

\* C34: a pool is N threads, all joined before execute returns: while the
\* driver is outside execute no thread is left unjoined or unfinished, the
\* messages on the channel stand pass by pass, and within a pass no SetSize
\* follows a worker's message and no worker's message follows a Finish.
\* The channel only grows, a message a step, so what holds of its last two
\* messages in every state holds of every two neighbours.
C34_PoolJoinedBeforeReturn ==
  /\ pc = "join" =>
       /\ Len(workers) = threads
       /\ Cardinality({k \in DOMAIN workers : k > joined}) <= threads
  /\ BetweenPasses =>
       /\ joined = threads
       /\ \A k \in DOMAIN workers :
            workers[k].ph = "get" /\ workers[k].i >= workers[k].hi
  /\ chan # <<>> =>
       LET n == Len(chan)
           b == origin[n]
       IN /\ Len(b) = 3 => b[2] >= 0 /\ b[2] < threads
          /\ n > 1 =>
               LET a == origin[n - 1]
               IN /\ a[1] <= b[1]
                  /\ (Len(a) = 3 /\ Len(b) # 3) =>
                       \/ a[1] < b[1] /\ chan[n].change = "SetSize"
                       \/ a[1] = b[1] /\ chan[n].change = "Finish"
                                      /\ chan[n].stream = "Current"
                  /\ chan[n - 1].change = "Finish" => Len(b) # 3

\* A run of two passes with a pool of two threads has returned, and a
\* worker of each pass sent messages.
C34_Witness ==
  /\ pc = "done"
  /\ threads = 2
  /\ Passes = 2
  /\ \E j, k \in DOMAIN chan :
       ByWorker(j) /\ ByWorker(k) /\ origin[j][1] = 1 /\ origin[k][1] = 2

\* How many Advance messages stream has on the channel.
Advances(stream) ==
  Cardinality({k \in DOMAIN chan :
                 chan[k].change = "Advance" /\ chan[k].stream = stream})

\* C35: whatever has been sent so far, the total stream has at most as many
\* Advance messages as the current stream and at most N fewer; when the
\* last message is the driver's (a SetSize or a Finish) the two counts are
\* equal.
C35_AdvancePairsBalanced ==
  LET total == Advances("Total")
      current == Advances("Current")
  IN /\ total <= current
     /\ current - total <= threads
     /\ (chan # <<>> /\ chan[Len(chan)].change \in {"SetSize", "Finish"}) =>
          total = current

\* Both threads of a pool have advanced the current stream and neither has
\* yet advanced the total.
C35_Witness ==
  /\ threads = 2
  /\ Advances("Current") = 2
  /\ Advances("Total") = 0

\* C36: the total stream never holds more Advance messages than the size its
\* most recent SetSize announced, and none before its first SetSize.
C36_TotalNeverOverflows ==
  LET sizes == SetSizes("Total")
  IN IF sizes = {} THEN Advances("Total") = 0
     ELSE Advances("Total") <= chan[CHOOSE k \in sizes : \A j \in sizes : j <= k].size

\* A second pass is over and the total stream is full: two Advances under
\* SetSize(2).
C36_Witness ==
  /\ Passes = 2
  /\ SetSizes("Total") # {}
  /\ LastSize("Total") = 2
  /\ Advances("Total") = 2

\* The GETs of the pass over the base URL for a plain word (one segment,
\* not a dot segment) that were answered, and not with 404.
BaseFound ==
  {n \in DOMAIN gets : /\ gets[n].by[1] = 1
                       /\ lines[gets[n].by[3] + 1] \notin {"", ".", ".."}
                       /\ gets[n].outcome.ok
                       /\ gets[n].outcome.status # 404}

\* C37: what the pass over the base URL discovers for a plain word is one
\* level below the base URL, with or without a "/" at the end of the base
\* URL; so a run with a limit of 1 or more that has returned has scanned it.
C37_BaseDiscoveryDepthOne ==
  \A n \in BaseFound :
    /\ Segments(UrlParse(gets[n].url)) - Segments(uri) = 1
    /\ (pc = "done" /\ recursion_depth >= 1) =>
         \E p \in DOMAIN scanned : scanned[p] = UrlParse(gets[n].url)

\* C38: the URL the driver is about to pop has at least as many path
\* segments as the base URL, so segments(u) - base_depth does not underflow.
C38_DepthNeverUnderflows ==
  (pc = "loop" /\ urls_vec # <<>>) =>
    Segments(urls_vec[Len(urls_vec)]) >= path_len_start

\* The last n entries of q, all of q when it is shorter.
Recent(q, n) == SubSeq(q, (IF Len(q) > n THEN Len(q) - n ELSE 0) + 1, Len(q))

IsShownLog(m) == m.kind = "Log" /\ m.level \in {"WARN", "ERROR", "CRITICAL"}
IsCurrentPrint(m) == m.kind = "Progress" /\ m.stream = "Current" /\ m.change = "Print"
IsTotalFinish(m) == m.kind = "Progress" /\ m.stream = "Total" /\ m.change = "Finish"

\* The WARN, ERROR and CRITICAL logs received, in arrival order.
ShownLogs == SelectSeq(tui_seen, IsShownLog)
\* The Prints of the current stream received, in arrival order.
Printed == SelectSeq(tui_seen, IsCurrentPrint)

\* C39: the log panel holds at most LOG_MAX entries, and they are the most
\* recently received WARN, ERROR and CRITICAL logs (INFO logs are not among
\* them): the older ones are those evicted.
C39_LogPanelKeepsNewest ==
  /\ Len(tui.log) <= 5
  /\ Len(tui.log) = Len(Recent(ShownLogs, 5))
  /\ {tui.log[i][2] : i \in DOMAIN tui.log}
       = {Recent(ShownLogs, 5)[i].text : i \in DOMAIN Recent(ShownLogs, 5)}

\* C40: the results buffer holds at most MESSAGES_MAX entries, and they are
\* the most recently received Prints of the current stream in arrival order;
\* the worker is marked done when, and only when, Progress(Total, Finish)
\* has been received.
C40_ResultsKeepNewest ==
  /\ Len(tui.messages) <= 20
  /\ Len(tui.messages) = (IF Len(Printed) > 20 THEN 20 ELSE Len(Printed))
  /\ \A i \in DOMAIN tui.messages :
       tui.messages[i] = Printed[Len(Printed) - Len(tui.messages) + i].text
  /\ tui.worker = <<"Worker", TRUE>> <=> \E i \in DOMAIN tui_seen : IsTotalFinish(tui_seen[i])

\* Twenty-one Prints were received: the first is gone, the other twenty are
\* shown, oldest first.
C40_Witness ==
  /\ Len(Printed) = 21
  /\ Len(tui.messages) = 20
  /\ tui.messages[1] = "2"
  /\ tui.messages[20] = "21"
  /\ tui.worker = <<"Worker", FALSE>>

====
